---- MODULE Spec2Model ----
(***************************************************************************)
(* Model of the expat-style XML core of refactor_repo:                     *)
(*   - the prolog/DTD role recognizer  (src/role_parser.rs), built with    *)
(*     the DTD feature, and                                                *)
(*   - the content-mode scanner        (src/tokenizer.rs).                 *)
(* Spec    drives a PrologState with arbitrary token sequences.            *)
(* SpecTok applies content_tok to bounded byte buffers.                    *)
(***************************************************************************)
EXTENDS Integers, Sequences, FiniteSets, TLC

(***************************************************************************)
(* Bounds of the model.                                                    *)
(***************************************************************************)
\* deepest content-model nesting explored (level is a u32 in the code)
MaxLevel == 3
\* deepest INCLUDE nesting explored (include_level is a u32 in the code)
MaxInclude == 2
\* the count of Error results saturates here
MaxErrors == 2
\* longest input buffer handed to the scanner
MaxLen == 4
\* at most this many whitespace tokens in a row are fed before a token
MaxSpaces == 1

(***************************************************************************)
(* Token kinds (tokenizer.rs, enum XmlTok) and roles (role_parser.rs,      *)
(* enum XmlRole).  Enumerators are modelled by their names.                *)
(***************************************************************************)
XmlTok ==
  { "TrailingRsqb", "None", "TrailingCr", "PartialChar", "Partial", "Invalid",
    "StartTagWithAtts", "StartTagNoAtts", "EmptyElementWithAtts",
    "EmptyElementNoAtts", "EndTag", "DataChars", "DataNewline",
    "CdataSectOpen", "EntityRef", "CharRef", "Pi", "XmlDecl", "Comment",
    "Bom", "PrologS", "DeclOpen", "DeclClose", "Name", "Nmtoken",
    "PoundName", "Or", "Percent", "OpenParen", "CloseParen", "OpenBracket",
    "CloseBracket", "Literal", "ParamEntityRef", "InstanceStart",
    "NameQuestion", "NameAsterisk", "NamePlus", "CondSectOpen",
    "CondSectClose", "CloseParenQuestion", "CloseParenAsterisk",
    "CloseParenPlus", "Comma", "AttributeValueS", "CdataSectClose",
    "PrefixedName", "IgnoreSect" }

\* The enumerators of XmlRole from None = 0 upwards, in declaration order;
\* XmlRoleSeq[i + 1] is the role whose discriminant is i.  Error is -1.
XmlRoleSeq ==
  << "None", "XmlDecl", "InstanceStart", "DoctypeNone", "DoctypeName",
     "DoctypeSystemId", "DoctypePublicId", "DoctypeInternalSubset",
     "DoctypeClose", "GeneralEntityName", "ParamEntityName", "EntityNone",
     "EntityValue", "EntitySystemId", "EntityPublicId", "EntityComplete",
     "EntityNotationName", "NotationNone", "NotationName",
     "NotationSystemId", "NotationNoSystemId", "NotationPublicId",
     "AttributeName", "AttributeTypeCdata", "AttributeTypeId",
     "AttributeTypeIdref", "AttributeTypeIdrefs", "AttributeTypeEntity",
     "AttributeTypeEntities", "AttributeTypeNmtoken",
     "AttributeTypeNmtokens", "AttributeEnumValue",
     "AttributeNotationValue", "AttlistNone", "AttlistElementName",
     "ImpliedAttributeValue", "RequiredAttributeValue",
     "DefaultAttributeValue", "FixedAttributeValue", "ElementNone",
     "ElementName", "ContentAny", "ContentEmpty", "ContentPcdata",
     "GroupOpen", "GroupClose", "GroupCloseRep", "GroupCloseOpt",
     "GroupClosePlus", "GroupChoice", "GroupSequence", "ContentElement",
     "ContentElementRep", "ContentElementOpt", "ContentElementPlus", "Pi",
     "Comment", "TextDecl", "IgnoreSect", "InnerParamEntityRef",
     "ParamEntityRef" >>

XmlRole == { "Error" } \cup { XmlRoleSeq[i] : i \in DOMAIN XmlRoleSeq }

\* `XmlRole::X as i32`
RoleAsI32(r) ==
  IF r = "Error" THEN -1
  ELSE (CHOOSE i \in DOMAIN XmlRoleSeq : XmlRoleSeq[i] = r) - 1

\* `std::mem::transmute::<i32, XmlRole>(n)` for a discriminant n in range
Transmute(n) == IF n = -1 THEN "Error" ELSE XmlRoleSeq[n + 1]

(***************************************************************************)
(* Keywords.                                                               *)
(***************************************************************************)
KW_ANY == "ANY"
KW_ATTLIST == "ATTLIST"
KW_CDATA == "CDATA"
KW_DOCTYPE == "DOCTYPE"
KW_ELEMENT == "ELEMENT"
KW_EMPTY == "EMPTY"
KW_ENTITIES == "ENTITIES"
KW_ENTITY == "ENTITY"
KW_FIXED == "FIXED"
KW_ID == "ID"
KW_IDREF == "IDREF"
KW_IDREFS == "IDREFS"
KW_IGNORE == "IGNORE"
KW_IMPLIED == "IMPLIED"
KW_INCLUDE == "INCLUDE"
KW_NDATA == "NDATA"
KW_NMTOKEN == "NMTOKEN"
KW_NMTOKENS == "NMTOKENS"
KW_NOTATION == "NOTATION"
KW_PCDATA == "PCDATA"
KW_PUBLIC == "PUBLIC"
KW_REQUIRED == "REQUIRED"
KW_SYSTEM == "SYSTEM"

TYPES_idrefBeforeId ==
  << KW_CDATA, KW_IDREF, KW_ID, KW_IDREFS, KW_ENTITY, KW_ENTITIES,
     KW_NMTOKEN, KW_NMTOKENS >>

\* the table of attlist2, in its source order
TYPES ==
  << KW_CDATA, KW_ID, KW_IDREF, KW_IDREFS, KW_ENTITY, KW_ENTITIES,
     KW_NMTOKEN, KW_NMTOKENS >>

\* The texts a name-bearing token can carry: every keyword, one name that
\* is no keyword ("x") and a lower-case spelling of a keyword.  A token's
\* text is the name that follows its punctuation ("<!" of a DeclOpen, "#"
\* of a PoundName), i.e. the slice the handlers hand to the matcher.
NameTexts ==
  { KW_ANY, KW_ATTLIST, KW_CDATA, KW_DOCTYPE, KW_ELEMENT, KW_EMPTY,
    KW_ENTITIES, KW_ENTITY, KW_FIXED, KW_ID, KW_IDREF, KW_IDREFS, KW_IGNORE,
    KW_IMPLIED, KW_INCLUDE, KW_NDATA, KW_NMTOKEN, KW_NMTOKENS, KW_NOTATION,
    KW_PCDATA, KW_PUBLIC, KW_REQUIRED, KW_SYSTEM, "x", "doctype" }

\* The encoding-aware keyword matcher: exact, case-sensitive comparison of
\* the token's name with an ASCII keyword.
XmlNameMatchesAscii(name, kw) == name = kw

(***************************************************************************)
(* State.                                                                  *)
(***************************************************************************)
VARIABLES
  \* PrologState (role_parser.rs)
  handler, level, role_none, include_level, document_entity, in_entity_value,
  \* the latest token_role call: its token, the role it returned, whether it
  \* ran into common(), and how often Error has been returned so far
  lastTok, lastRole, lastCommon, errors,
  \* while an ELEMENT declaration is being read: the OpenParen tokens it has
  \* had accepted so far minus the close-paren tokens (0 outside of one)
  opens,
  \* the INCLUDE sections opened ("<![INCLUDE[" accepted) and not yet closed
  \* by an accepted "]]>"
  openIncludes,
  \* how often the roles DoctypeName and DoctypeClose have been returned
  \* (counted up to 2), and whether no PrologS, Pi, Comment or DeclOpen token
  \* has been given yet
  doctypeNames, doctypeCloses, atStart,
  \* the scanner's caller: the input buffer, the latest content_tok result,
  \* the place where the input was split, and the token sequences of a
  \* direct and of a split-and-resumed scan
  buf, res, cut, direct, resumed,
  \* a declaration fed token by token: its tokens, the index of the next
  \* one, and the calls made so far with the roles they returned
  script, pos, roles

pvars == << handler, level, role_none, include_level, document_entity,
            in_entity_value, lastTok, lastRole, lastCommon, errors,
            opens, openIncludes, doctypeNames, doctypeCloses, atStart >>
tvars == << buf, res, cut, direct, resumed >>
svars == << script, pos, roles >>
vars == << pvars, tvars, svars >>

\* marks "no call yet"
NoTok == "-"

\* the PrologState as one record, as the handlers receive it
State ==
  [ handler |-> handler, level |-> level, role_none |-> role_none,
    include_level |-> include_level, document_entity |-> document_entity,
    in_entity_value |-> in_entity_value ]

\* PrologState::new()
new ==
  [ handler |-> "prolog0", level |-> 0, role_none |-> "None",
    document_entity |-> TRUE, include_level |-> 0,
    in_entity_value |-> FALSE ]

new_external_entity_noInclude ==
  [ new EXCEPT !.handler = "external_subset0", !.document_entity = FALSE ]

\* PrologState::new_external_entity()
new_external_entity ==
  [ new EXCEPT !.handler = "external_subset0", !.document_entity = FALSE,
               !.include_level = 1 ]

(***************************************************************************)
(* Handlers.  Each returns the updated PrologState, the role, and whether  *)
(* the call went through common().                                         *)
(***************************************************************************)
\* `x += 1` on a u32 counter; the model's bounds keep x far from u32::MAX
Inc(x) == x + 1

\* `x -= 1` on a u32 counter.  Taken at 0 it overflows (a panic in a debug
\* build, u32::MAX in a release build); the model marks that outcome by -1.
Dec(x) == IF x = 0 THEN -1 ELSE x - 1

Ret(st, role) == [ st |-> st, role |-> role, common |-> FALSE ]

Goto(st, h, role) == Ret([st EXCEPT !.handler = h], role)

common_keepHandler(st, tok) ==
  IF ~st.document_entity /\ tok = "ParamEntityRef"
    THEN [ st |-> st, role |-> "InnerParamEntityRef", common |-> TRUE ]
    ELSE [ st |-> st, role |-> "Error", common |-> TRUE ]

common_innerToSink(st, tok) ==
  IF ~st.document_entity /\ tok = "ParamEntityRef"
    THEN [ st |-> [st EXCEPT !.handler = "error"],
           role |-> "InnerParamEntityRef", common |-> TRUE ]
    ELSE [ st |-> [st EXCEPT !.handler = "error"], role |-> "Error",
           common |-> TRUE ]

common(st, tok) ==
  IF ~st.document_entity /\ tok = "ParamEntityRef"
    THEN [ st |-> st, role |-> "InnerParamEntityRef", common |-> TRUE ]
    ELSE [ st |-> [st EXCEPT !.handler = "error"], role |-> "Error",
           common |-> TRUE ]

set_top_level_alwaysInternal(st) ==
  [st EXCEPT !.handler = "internal_subset"]

set_top_level(st) ==
  IF st.document_entity
    THEN [st EXCEPT !.handler = "internal_subset"]
    ELSE [st EXCEPT !.handler = "external_subset1"]

error_returnsError(st, tok, name) == Ret(st, "Error")

error(st, tok, name) == Ret(st, "None")

prolog0(st, tok, name) ==
  CASE tok = "PrologS" -> Goto(st, "prolog1", "None")
    [] tok = "XmlDecl" -> Goto(st, "prolog1", "XmlDecl")
    [] tok = "Pi" -> Goto(st, "prolog1", "Pi")
    [] tok = "Comment" -> Goto(st, "prolog1", "Comment")
    [] tok = "Bom" -> Ret(st, "None")
    [] tok = "DeclOpen" ->
         IF ~XmlNameMatchesAscii(name, KW_DOCTYPE) THEN common(st, tok)
         ELSE Goto(st, "doctype0", "DoctypeNone")
    [] tok = "InstanceStart" -> Goto(st, "error", "InstanceStart")
    [] OTHER -> common(st, tok)

prolog1(st, tok, name) ==
  CASE tok = "PrologS" -> Ret(st, "None")
    [] tok = "Pi" -> Ret(st, "Pi")
    [] tok = "Comment" -> Ret(st, "Comment")
    [] tok = "Bom" -> Ret(st, "None")
    [] tok = "DeclOpen" ->
         IF ~XmlNameMatchesAscii(name, KW_DOCTYPE) THEN common(st, tok)
         ELSE Goto(st, "doctype0", "DoctypeNone")
    [] tok = "InstanceStart" -> Goto(st, "error", "InstanceStart")
    [] OTHER -> common(st, tok)

prolog2_staysOpen(st, tok, name) ==
  CASE tok = "PrologS" -> Ret(st, "None")
    [] tok = "Pi" -> Ret(st, "Pi")
    [] tok = "Comment" -> Ret(st, "Comment")
    [] tok = "InstanceStart" -> Ret(st, "InstanceStart")
    [] OTHER -> common(st, tok)

prolog2(st, tok, name) ==
  CASE tok = "PrologS" -> Ret(st, "None")
    [] tok = "Pi" -> Ret(st, "Pi")
    [] tok = "Comment" -> Ret(st, "Comment")
    [] tok = "InstanceStart" -> Goto(st, "error", "InstanceStart")
    [] OTHER -> common(st, tok)

doctype0_advanceOnSpace(st, tok, name) ==
  CASE tok = "PrologS" -> Goto(st, "doctype1", "DoctypeNone")
    [] tok \in {"Name", "PrefixedName"} -> Goto(st, "doctype1", "DoctypeName")
    [] OTHER -> common(st, tok)

doctype0(st, tok, name) ==
  CASE tok = "PrologS" -> Ret(st, "DoctypeNone")
    [] tok \in {"Name", "PrefixedName"} -> Goto(st, "doctype1", "DoctypeName")
    [] OTHER -> common(st, tok)

doctype1(st, tok, name) ==
  CASE tok = "PrologS" -> Ret(st, "DoctypeNone")
    [] tok = "OpenBracket" ->
         Goto(st, "internal_subset", "DoctypeInternalSubset")
    [] tok = "DeclClose" -> Goto(st, "prolog2", "DoctypeClose")
    [] tok = "Name" ->
         IF XmlNameMatchesAscii(name, KW_SYSTEM)
           THEN Goto(st, "doctype3", "DoctypeNone")
         ELSE IF XmlNameMatchesAscii(name, KW_PUBLIC)
           THEN Goto(st, "doctype2", "DoctypeNone")
         ELSE common(st, tok)
    [] OTHER -> common(st, tok)

doctype2_skipPublicId(st, tok, name) ==
  CASE tok = "PrologS" -> Ret(st, "DoctypeNone")
    [] tok = "Literal" -> Goto(st, "doctype4", "DoctypeSystemId")
    [] OTHER -> common(st, tok)

doctype2(st, tok, name) ==
  CASE tok = "PrologS" -> Ret(st, "DoctypeNone")
    [] tok = "Literal" -> Goto(st, "doctype3", "DoctypePublicId")
    [] OTHER -> common(st, tok)

doctype3(st, tok, name) ==
  CASE tok = "PrologS" -> Ret(st, "DoctypeNone")
    [] tok = "Literal" -> Goto(st, "doctype4", "DoctypeSystemId")
    [] OTHER -> common(st, tok)

doctype4(st, tok, name) ==
  CASE tok = "PrologS" -> Ret(st, "DoctypeNone")
    [] tok = "OpenBracket" ->
         Goto(st, "internal_subset", "DoctypeInternalSubset")
    [] tok = "DeclClose" -> Goto(st, "prolog2", "DoctypeClose")
    [] OTHER -> common(st, tok)

doctype5_reopensProlog(st, tok, name) ==
  CASE tok = "PrologS" -> Ret(st, "DoctypeNone")
    [] tok = "DeclClose" -> Goto(st, "prolog1", "DoctypeClose")
    [] OTHER -> common(st, tok)

doctype5(st, tok, name) ==
  CASE tok = "PrologS" -> Ret(st, "DoctypeNone")
    [] tok = "DeclClose" -> Goto(st, "prolog2", "DoctypeClose")
    [] OTHER -> common(st, tok)

internal_subset(st, tok, name) ==
  CASE tok = "PrologS" -> Ret(st, "None")
    [] tok = "DeclOpen" ->
         IF XmlNameMatchesAscii(name, KW_ENTITY)
           THEN Goto(st, "entity0", "EntityNone")
         ELSE IF XmlNameMatchesAscii(name, KW_ATTLIST)
           THEN Goto(st, "attlist0", "AttlistNone")
         ELSE IF XmlNameMatchesAscii(name, KW_ELEMENT)
           THEN Goto(st, "element0", "ElementNone")
         ELSE IF XmlNameMatchesAscii(name, KW_NOTATION)
           THEN Goto(st, "notation0", "NotationNone")
         ELSE common(st, tok)
    [] tok = "Pi" -> Ret(st, "Pi")
    [] tok = "Comment" -> Ret(st, "Comment")
    [] tok = "ParamEntityRef" -> Ret(st, "ParamEntityRef")
    [] tok = "CloseBracket" -> Goto(st, "doctype5", "DoctypeNone")
    [] tok = "None" -> Ret(st, "None")
    [] OTHER -> common(st, tok)

external_subset1_noDecrement(st, tok, name) ==
  CASE tok = "CondSectOpen" -> Goto(st, "cond_sect0", "None")
    [] tok = "CondSectClose" ->
         IF st.include_level = 0 THEN common(st, tok) ELSE Ret(st, "None")
    [] tok = "PrologS" -> Ret(st, "None")
    [] tok = "CloseBracket" -> common(st, tok)
    [] tok = "None" ->
         IF st.include_level # 0 THEN common(st, tok) ELSE Ret(st, "None")
    [] OTHER -> internal_subset(st, tok, name)

external_subset1(st, tok, name) ==
  CASE tok = "CondSectOpen" -> Goto(st, "cond_sect0", "None")
    [] tok = "CondSectClose" ->
         IF st.include_level = 0 THEN common(st, tok)
         ELSE Ret([st EXCEPT !.include_level = Dec(@)], "None")
    [] tok = "PrologS" -> Ret(st, "None")
    [] tok = "CloseBracket" -> common(st, tok)
    [] tok = "None" ->
         IF st.include_level # 0 THEN common(st, tok) ELSE Ret(st, "None")
    [] OTHER -> internal_subset(st, tok, name)

external_subset0(st, tok, name) ==
  LET st1 == [st EXCEPT !.handler = "external_subset1"] IN
  IF tok = "XmlDecl" THEN Ret(st1, "TextDecl")
  ELSE external_subset1(st1, tok, name)


\* `state.handler = decl_close; state.role_none = r;` of the handlers that
\* finish a declaration body
ToDeclClose(st, r, role) ==
  Ret([st EXCEPT !.handler = "decl_close", !.role_none = r], role)

entity0(st, tok, name) ==
  CASE tok = "PrologS" -> Ret(st, "EntityNone")
    [] tok = "Percent" -> Goto(st, "entity1", "EntityNone")
    [] tok = "Name" -> Goto(st, "entity2", "GeneralEntityName")
    [] OTHER -> common(st, tok)

entity1(st, tok, name) ==
  CASE tok = "PrologS" -> Ret(st, "EntityNone")
    [] tok = "Name" -> Goto(st, "entity7", "ParamEntityName")
    [] OTHER -> common(st, tok)

entity2_keepRoleNone(st, tok, name) ==
  CASE tok = "PrologS" -> Ret(st, "EntityNone")
    [] tok = "Name" ->
         IF XmlNameMatchesAscii(name, KW_SYSTEM)
           THEN Goto(st, "entity4", "EntityNone")
         ELSE IF XmlNameMatchesAscii(name, KW_PUBLIC)
           THEN Goto(st, "entity3", "EntityNone")
         ELSE common(st, tok)
    [] tok = "Literal" -> Goto(st, "decl_close", "EntityValue")
    [] OTHER -> common(st, tok)

entity2(st, tok, name) ==
  CASE tok = "PrologS" -> Ret(st, "EntityNone")
    [] tok = "Name" ->
         IF XmlNameMatchesAscii(name, KW_SYSTEM)
           THEN Goto(st, "entity4", "EntityNone")
         ELSE IF XmlNameMatchesAscii(name, KW_PUBLIC)
           THEN Goto(st, "entity3", "EntityNone")
         ELSE common(st, tok)
    [] tok = "Literal" -> ToDeclClose(st, "EntityNone", "EntityValue")
    [] OTHER -> common(st, tok)

entity3(st, tok, name) ==
  CASE tok = "PrologS" -> Ret(st, "EntityNone")
    [] tok = "Literal" -> Goto(st, "entity4", "EntityPublicId")
    [] OTHER -> common(st, tok)

entity4(st, tok, name) ==
  CASE tok = "PrologS" -> Ret(st, "EntityNone")
    [] tok = "Literal" -> Goto(st, "entity5", "EntitySystemId")
    [] OTHER -> common(st, tok)

entity5(st, tok, name) ==
  CASE tok = "PrologS" -> Ret(st, "EntityNone")
    [] tok = "DeclClose" -> Ret(set_top_level(st), "EntityComplete")
    [] tok = "Name" ->
         IF XmlNameMatchesAscii(name, KW_NDATA)
           THEN Goto(st, "entity6", "EntityNone")
         ELSE common(st, tok)
    [] OTHER -> common(st, tok)

entity6(st, tok, name) ==
  CASE tok = "PrologS" -> Ret(st, "EntityNone")
    [] tok = "Name" -> ToDeclClose(st, "EntityNone", "EntityNotationName")
    [] OTHER -> common(st, tok)

entity7(st, tok, name) ==
  CASE tok = "PrologS" -> Ret(st, "EntityNone")
    [] tok = "Name" ->
         IF XmlNameMatchesAscii(name, KW_SYSTEM)
           THEN Goto(st, "entity9", "EntityNone")
         ELSE IF XmlNameMatchesAscii(name, KW_PUBLIC)
           THEN Goto(st, "entity8", "EntityNone")
         ELSE common(st, tok)
    [] tok = "Literal" -> ToDeclClose(st, "EntityNone", "EntityValue")
    [] OTHER -> common(st, tok)

entity8(st, tok, name) ==
  CASE tok = "PrologS" -> Ret(st, "EntityNone")
    [] tok = "Literal" -> Goto(st, "entity9", "EntityPublicId")
    [] OTHER -> common(st, tok)

entity9(st, tok, name) ==
  CASE tok = "PrologS" -> Ret(st, "EntityNone")
    [] tok = "Literal" -> Goto(st, "entity10", "EntitySystemId")
    [] OTHER -> common(st, tok)

entity10_closeAsNone(st, tok, name) ==
  CASE tok = "PrologS" -> Ret(st, "EntityNone")
    [] tok = "DeclClose" -> Ret(set_top_level(st), "EntityNone")
    [] OTHER -> common(st, tok)

entity10(st, tok, name) ==
  CASE tok = "PrologS" -> Ret(st, "EntityNone")
    [] tok = "DeclClose" -> Ret(set_top_level(st), "EntityComplete")
    [] OTHER -> common(st, tok)

notation0(st, tok, name) ==
  CASE tok = "PrologS" -> Ret(st, "NotationNone")
    [] tok = "Name" -> Goto(st, "notation1", "NotationName")
    [] OTHER -> common(st, tok)

notation1(st, tok, name) ==
  CASE tok = "PrologS" -> Ret(st, "NotationNone")
    [] tok = "Name" ->
         IF XmlNameMatchesAscii(name, KW_SYSTEM)
           THEN Goto(st, "notation3", "NotationNone")
         ELSE IF XmlNameMatchesAscii(name, KW_PUBLIC)
           THEN Goto(st, "notation2", "NotationNone")
         ELSE common(st, tok)
    [] OTHER -> common(st, tok)

notation2(st, tok, name) ==
  CASE tok = "PrologS" -> Ret(st, "NotationNone")
    [] tok = "Literal" -> Goto(st, "notation4", "NotationPublicId")
    [] OTHER -> common(st, tok)

notation3_keepRoleNone(st, tok, name) ==
  CASE tok = "PrologS" -> Ret(st, "NotationNone")
    [] tok = "Literal" -> Goto(st, "decl_close", "NotationSystemId")
    [] OTHER -> common(st, tok)

notation3(st, tok, name) ==
  CASE tok = "PrologS" -> Ret(st, "NotationNone")
    [] tok = "Literal" -> ToDeclClose(st, "NotationNone", "NotationSystemId")
    [] OTHER -> common(st, tok)

notation4(st, tok, name) ==
  CASE tok = "PrologS" -> Ret(st, "NotationNone")
    [] tok = "Literal" -> ToDeclClose(st, "NotationNone", "NotationSystemId")
    [] tok = "DeclClose" -> Ret(set_top_level(st), "NotationNoSystemId")
    [] OTHER -> common(st, tok)

attlist0(st, tok, name) ==
  CASE tok = "PrologS" -> Ret(st, "AttlistNone")
    [] tok \in {"Name", "PrefixedName"} ->
         Goto(st, "attlist1", "AttlistElementName")
    [] OTHER -> common(st, tok)

attlist1(st, tok, name) ==
  CASE tok = "PrologS" -> Ret(st, "AttlistNone")
    [] tok = "DeclClose" -> Ret(set_top_level(st), "AttlistNone")
    [] tok \in {"Name", "PrefixedName"} ->
         Goto(st, "attlist2", "AttributeName")
    [] OTHER -> common(st, tok)

\* the loop over TYPES: the first index whose keyword matches decides
attlist2(st, tok, name) ==
  CASE tok = "PrologS" -> Ret(st, "AttlistNone")
    [] tok = "Name" ->
         LET hits == { i \in DOMAIN TYPES : XmlNameMatchesAscii(name, TYPES[i]) }
         IN  IF hits # {}
               THEN LET i == (CHOOSE j \in hits : \A k \in hits : j <= k) - 1
                    IN  Goto(st, "attlist8",
                             Transmute(RoleAsI32("AttributeTypeCdata") + i))
             ELSE IF XmlNameMatchesAscii(name, KW_NOTATION)
               THEN Goto(st, "attlist5", "AttlistNone")
             ELSE common(st, tok)
    [] tok = "OpenParen" -> Goto(st, "attlist3", "AttlistNone")
    [] OTHER -> common(st, tok)

attlist3(st, tok, name) ==
  CASE tok = "PrologS" -> Ret(st, "AttlistNone")
    [] tok \in {"Nmtoken", "Name", "PrefixedName"} ->
         Goto(st, "attlist4", "AttributeEnumValue")
    [] OTHER -> common(st, tok)

attlist4(st, tok, name) ==
  CASE tok = "PrologS" -> Ret(st, "AttlistNone")
    [] tok = "CloseParen" -> Goto(st, "attlist8", "AttlistNone")
    [] tok = "Or" -> Goto(st, "attlist3", "AttlistNone")
    [] OTHER -> common(st, tok)

attlist5(st, tok, name) ==
  CASE tok = "PrologS" -> Ret(st, "AttlistNone")
    [] tok = "OpenParen" -> Goto(st, "attlist6", "AttlistNone")
    [] OTHER -> common(st, tok)

attlist6(st, tok, name) ==
  CASE tok = "PrologS" -> Ret(st, "AttlistNone")
    [] tok = "Name" -> Goto(st, "attlist7", "AttributeNotationValue")
    [] OTHER -> common(st, tok)

attlist7(st, tok, name) ==
  CASE tok = "PrologS" -> Ret(st, "AttlistNone")
    [] tok = "CloseParen" -> Goto(st, "attlist8", "AttlistNone")
    [] tok = "Or" -> Goto(st, "attlist6", "AttlistNone")
    [] OTHER -> common(st, tok)

attlist8_impliedAsRequired(st, tok, name) ==
  CASE tok = "PrologS" -> Ret(st, "AttlistNone")
    [] tok = "PoundName" ->
         IF XmlNameMatchesAscii(name, KW_IMPLIED)
           THEN Goto(st, "attlist1", "RequiredAttributeValue")
         ELSE IF XmlNameMatchesAscii(name, KW_REQUIRED)
           THEN Goto(st, "attlist1", "RequiredAttributeValue")
         ELSE IF XmlNameMatchesAscii(name, KW_FIXED)
           THEN Goto(st, "attlist9", "AttlistNone")
         ELSE common(st, tok)
    [] tok = "Literal" -> Goto(st, "attlist1", "DefaultAttributeValue")
    [] OTHER -> common(st, tok)

attlist8(st, tok, name) ==
  CASE tok = "PrologS" -> Ret(st, "AttlistNone")
    [] tok = "PoundName" ->
         IF XmlNameMatchesAscii(name, KW_IMPLIED)
           THEN Goto(st, "attlist1", "ImpliedAttributeValue")
         ELSE IF XmlNameMatchesAscii(name, KW_REQUIRED)
           THEN Goto(st, "attlist1", "RequiredAttributeValue")
         ELSE IF XmlNameMatchesAscii(name, KW_FIXED)
           THEN Goto(st, "attlist9", "AttlistNone")
         ELSE common(st, tok)
    [] tok = "Literal" -> Goto(st, "attlist1", "DefaultAttributeValue")
    [] OTHER -> common(st, tok)

attlist9(st, tok, name) ==
  CASE tok = "PrologS" -> Ret(st, "AttlistNone")
    [] tok = "Literal" -> Goto(st, "attlist1", "FixedAttributeValue")
    [] OTHER -> common(st, tok)


element0(st, tok, name) ==
  CASE tok = "PrologS" -> Ret(st, "ElementNone")
    [] tok \in {"Name", "PrefixedName"} -> Goto(st, "element1", "ElementName")
    [] OTHER -> common(st, tok)

element1_levelZero(st, tok, name) ==
  CASE tok = "PrologS" -> Ret(st, "ElementNone")
    [] tok = "Name" ->
         IF XmlNameMatchesAscii(name, KW_EMPTY)
           THEN ToDeclClose(st, "ElementNone", "ContentEmpty")
         ELSE IF XmlNameMatchesAscii(name, KW_ANY)
           THEN ToDeclClose(st, "ElementNone", "ContentAny")
         ELSE common(st, tok)
    [] tok = "OpenParen" ->
         Ret([st EXCEPT !.handler = "element2", !.level = 0], "GroupOpen")
    [] OTHER -> common(st, tok)

element1(st, tok, name) ==
  CASE tok = "PrologS" -> Ret(st, "ElementNone")
    [] tok = "Name" ->
         IF XmlNameMatchesAscii(name, KW_EMPTY)
           THEN ToDeclClose(st, "ElementNone", "ContentEmpty")
         ELSE IF XmlNameMatchesAscii(name, KW_ANY)
           THEN ToDeclClose(st, "ElementNone", "ContentAny")
         ELSE common(st, tok)
    [] tok = "OpenParen" ->
         Ret([st EXCEPT !.handler = "element2", !.level = 1], "GroupOpen")
    [] OTHER -> common(st, tok)

element2(st, tok, name) ==
  CASE tok = "PrologS" -> Ret(st, "ElementNone")
    [] tok = "PoundName" ->
         IF XmlNameMatchesAscii(name, KW_PCDATA)
           THEN Goto(st, "element3", "ContentPcdata")
         ELSE common(st, tok)
    [] tok = "OpenParen" ->
         Ret([st EXCEPT !.level = 2, !.handler = "element6"], "GroupOpen")
    [] tok \in {"Name", "PrefixedName"} ->
         Goto(st, "element7", "ContentElement")
    [] tok = "NameQuestion" -> Goto(st, "element7", "ContentElementOpt")
    [] tok = "NameAsterisk" -> Goto(st, "element7", "ContentElementRep")
    [] tok = "NamePlus" -> Goto(st, "element7", "ContentElementPlus")
    [] OTHER -> common(st, tok)

element3(st, tok, name) ==
  CASE tok = "PrologS" -> Ret(st, "ElementNone")
    [] tok = "CloseParen" -> ToDeclClose(st, "ElementNone", "GroupClose")
    [] tok = "CloseParenAsterisk" ->
         ToDeclClose(st, "ElementNone", "GroupCloseRep")
    [] tok = "Or" -> Goto(st, "element4", "ElementNone")
    [] OTHER -> common(st, tok)

element4(st, tok, name) ==
  CASE tok = "PrologS" -> Ret(st, "ElementNone")
    [] tok \in {"Name", "PrefixedName"} ->
         Goto(st, "element5", "ContentElement")
    [] OTHER -> common(st, tok)

element5_plainClose(st, tok, name) ==
  CASE tok = "PrologS" -> Ret(st, "ElementNone")
    [] tok = "CloseParen" -> ToDeclClose(st, "ElementNone", "GroupClose")
    [] tok = "CloseParenAsterisk" ->
         ToDeclClose(st, "ElementNone", "GroupCloseRep")
    [] tok = "Or" -> Goto(st, "element4", "ElementNone")
    [] OTHER -> common(st, tok)

element5(st, tok, name) ==
  CASE tok = "PrologS" -> Ret(st, "ElementNone")
    [] tok = "CloseParenAsterisk" ->
         ToDeclClose(st, "ElementNone", "GroupCloseRep")
    [] tok = "Or" -> Goto(st, "element4", "ElementNone")
    [] OTHER -> common(st, tok)

element6_flatGroups(st, tok, name) ==
  CASE tok = "PrologS" -> Ret(st, "ElementNone")
    [] tok = "OpenParen" -> Ret(st, "GroupOpen")
    [] tok \in {"Name", "PrefixedName"} ->
         Goto(st, "element7", "ContentElement")
    [] tok = "NameQuestion" -> Goto(st, "element7", "ContentElementOpt")
    [] tok = "NameAsterisk" -> Goto(st, "element7", "ContentElementRep")
    [] tok = "NamePlus" -> Goto(st, "element7", "ContentElementPlus")
    [] OTHER -> common(st, tok)

element6(st, tok, name) ==
  CASE tok = "PrologS" -> Ret(st, "ElementNone")
    [] tok = "OpenParen" ->
         Ret([st EXCEPT !.level = Inc(@)], "GroupOpen")
    [] tok \in {"Name", "PrefixedName"} ->
         Goto(st, "element7", "ContentElement")
    [] tok = "NameQuestion" -> Goto(st, "element7", "ContentElementOpt")
    [] tok = "NameAsterisk" -> Goto(st, "element7", "ContentElementRep")
    [] tok = "NamePlus" -> Goto(st, "element7", "ContentElementPlus")
    [] OTHER -> common(st, tok)

\* the four close-paren arms of element7: `level -= 1`, and on reaching 0
\* the handler becomes decl_close with role_none = ElementNone
CloseGroup(st, role) ==
  LET st1 == [st EXCEPT !.level = Dec(@)] IN
  IF st1.level = 0
    THEN ToDeclClose(st1, "ElementNone", role)
    ELSE Ret(st1, role)

element7_commaAsChoice(st, tok, name) ==
  CASE tok = "PrologS" -> Ret(st, "ElementNone")
    [] tok = "CloseParen" -> CloseGroup(st, "GroupClose")
    [] tok = "CloseParenAsterisk" -> CloseGroup(st, "GroupCloseRep")
    [] tok = "CloseParenQuestion" -> CloseGroup(st, "GroupCloseOpt")
    [] tok = "CloseParenPlus" -> CloseGroup(st, "GroupClosePlus")
    [] tok = "Comma" -> Goto(st, "element6", "GroupChoice")
    [] tok = "Or" -> Goto(st, "element6", "GroupChoice")
    [] OTHER -> common(st, tok)

element7(st, tok, name) ==
  CASE tok = "PrologS" -> Ret(st, "ElementNone")
    [] tok = "CloseParen" -> CloseGroup(st, "GroupClose")
    [] tok = "CloseParenAsterisk" -> CloseGroup(st, "GroupCloseRep")
    [] tok = "CloseParenQuestion" -> CloseGroup(st, "GroupCloseOpt")
    [] tok = "CloseParenPlus" -> CloseGroup(st, "GroupClosePlus")
    [] tok = "Comma" -> Goto(st, "element6", "GroupSequence")
    [] tok = "Or" -> Goto(st, "element6", "GroupChoice")
    [] OTHER -> common(st, tok)

cond_sect0(st, tok, name) ==
  CASE tok = "PrologS" -> Ret(st, "None")
    [] tok = "Name" ->
         IF XmlNameMatchesAscii(name, KW_INCLUDE)
           THEN Goto(st, "cond_sect1", "None")
         ELSE IF XmlNameMatchesAscii(name, KW_IGNORE)
           THEN Goto(st, "cond_sect2", "None")
         ELSE common(st, tok)
    [] OTHER -> common(st, tok)

cond_sect1(st, tok, name) ==
  CASE tok = "PrologS" -> Ret(st, "None")
    [] tok = "OpenBracket" ->
         Ret([st EXCEPT !.handler = "external_subset1",
                        !.include_level = Inc(@)], "None")
    [] OTHER -> common(st, tok)

cond_sect2(st, tok, name) ==
  CASE tok = "PrologS" -> Ret(st, "None")
    [] tok = "OpenBracket" -> Goto(st, "external_subset1", "IgnoreSect")
    [] OTHER -> common(st, tok)

decl_close(st, tok, name) ==
  CASE tok = "PrologS" -> Ret(st, st.role_none)
    [] tok = "DeclClose" ->
         LET st1 == set_top_level(st) IN Ret(st1, st1.role_none)
    [] OTHER -> common(st, tok)

\* every value the handler selector can hold
Handlers ==
  { "prolog0", "prolog1", "prolog2", "doctype0", "doctype1", "doctype2",
    "doctype3", "doctype4", "doctype5", "internal_subset",
    "external_subset0", "external_subset1", "entity0", "entity1", "entity2",
    "entity3", "entity4", "entity5", "entity6", "entity7", "entity8",
    "entity9", "entity10", "notation0", "notation1", "notation2",
    "notation3", "notation4", "attlist0", "attlist1", "attlist2",
    "attlist3", "attlist4", "attlist5", "attlist6", "attlist7", "attlist8",
    "attlist9", "element0", "element1", "element2", "element3", "element4",
    "element5", "element6", "element7", "cond_sect0", "cond_sect1",
    "cond_sect2", "decl_close", "error" }

\* PrologState::token_role: `(self.handler)(self, tok, ptr, end, enc)`
token_role(st, tok, name) ==
  CASE st.handler = "prolog0" -> prolog0(st, tok, name)
    [] st.handler = "prolog1" -> prolog1(st, tok, name)
    [] st.handler = "prolog2" -> prolog2(st, tok, name)
    [] st.handler = "doctype0" -> doctype0(st, tok, name)
    [] st.handler = "doctype1" -> doctype1(st, tok, name)
    [] st.handler = "doctype2" -> doctype2(st, tok, name)
    [] st.handler = "doctype3" -> doctype3(st, tok, name)
    [] st.handler = "doctype4" -> doctype4(st, tok, name)
    [] st.handler = "doctype5" -> doctype5(st, tok, name)
    [] st.handler = "internal_subset" -> internal_subset(st, tok, name)
    [] st.handler = "external_subset0" -> external_subset0(st, tok, name)
    [] st.handler = "external_subset1" -> external_subset1(st, tok, name)
    [] st.handler = "entity0" -> entity0(st, tok, name)
    [] st.handler = "entity1" -> entity1(st, tok, name)
    [] st.handler = "entity2" -> entity2(st, tok, name)
    [] st.handler = "entity3" -> entity3(st, tok, name)
    [] st.handler = "entity4" -> entity4(st, tok, name)
    [] st.handler = "entity5" -> entity5(st, tok, name)
    [] st.handler = "entity6" -> entity6(st, tok, name)
    [] st.handler = "entity7" -> entity7(st, tok, name)
    [] st.handler = "entity8" -> entity8(st, tok, name)
    [] st.handler = "entity9" -> entity9(st, tok, name)
    [] st.handler = "entity10" -> entity10(st, tok, name)
    [] st.handler = "notation0" -> notation0(st, tok, name)
    [] st.handler = "notation1" -> notation1(st, tok, name)
    [] st.handler = "notation2" -> notation2(st, tok, name)
    [] st.handler = "notation3" -> notation3(st, tok, name)
    [] st.handler = "notation4" -> notation4(st, tok, name)
    [] st.handler = "attlist0" -> attlist0(st, tok, name)
    [] st.handler = "attlist1" -> attlist1(st, tok, name)
    [] st.handler = "attlist2" -> attlist2(st, tok, name)
    [] st.handler = "attlist3" -> attlist3(st, tok, name)
    [] st.handler = "attlist4" -> attlist4(st, tok, name)
    [] st.handler = "attlist5" -> attlist5(st, tok, name)
    [] st.handler = "attlist6" -> attlist6(st, tok, name)
    [] st.handler = "attlist7" -> attlist7(st, tok, name)
    [] st.handler = "attlist8" -> attlist8(st, tok, name)
    [] st.handler = "attlist9" -> attlist9(st, tok, name)
    [] st.handler = "element0" -> element0(st, tok, name)
    [] st.handler = "element1" -> element1(st, tok, name)
    [] st.handler = "element2" -> element2(st, tok, name)
    [] st.handler = "element3" -> element3(st, tok, name)
    [] st.handler = "element4" -> element4(st, tok, name)
    [] st.handler = "element5" -> element5(st, tok, name)
    [] st.handler = "element6" -> element6(st, tok, name)
    [] st.handler = "element7" -> element7(st, tok, name)
    [] st.handler = "cond_sect0" -> cond_sect0(st, tok, name)
    [] st.handler = "cond_sect1" -> cond_sect1(st, tok, name)
    [] st.handler = "cond_sect2" -> cond_sect2(st, tok, name)
    [] st.handler = "decl_close" -> decl_close(st, tok, name)
    [] st.handler = "error" -> error(st, tok, name)

(***************************************************************************)
(* The role recognizer driven by arbitrary tokens.                         *)
(***************************************************************************)
\* the scanner's variables, idle while the role recognizer runs
TokIdle ==
  /\ buf = << >>
  /\ res = [ tok |-> NoTok, lo |-> 0, hi |-> 0 ]
  /\ cut = 0
  /\ direct = << >>
  /\ resumed = << >>

\* a PrologState fresh from one of its two constructors
InitState(st) ==
  /\ handler = st.handler
  /\ level = st.level
  /\ role_none = st.role_none
  /\ include_level = st.include_level
  /\ document_entity = st.document_entity
  /\ in_entity_value = st.in_entity_value
  /\ lastTok = NoTok
  /\ lastRole = "None"
  /\ lastCommon = FALSE
  /\ errors = 0
  /\ opens = 0
  /\ openIncludes = 0
  /\ doctypeNames = 0
  /\ doctypeCloses = 0
  /\ atStart = TRUE

\* no declaration is being fed
ScriptIdle ==
  /\ script = << >>
  /\ pos = 1
  /\ roles = << >>

Init ==
  /\ InitState(new) \/ InitState(new_external_entity)
  /\ TokIdle
  /\ ScriptIdle

\* one call state.token_role(tok, ptr, end, enc); a call that would take a
\* counter beyond the bounds of the model is left out
WithinBounds(st) ==
  /\ st.level > level => st.level <= MaxLevel
  /\ st.include_level > include_level => st.include_level <= MaxInclude

\* the effect of a call that was given tok and returned r
Call(tok, r) ==
    /\ WithinBounds(r.st)
    /\ handler' = r.st.handler
    /\ level' = r.st.level
    /\ role_none' = r.st.role_none
    /\ include_level' = r.st.include_level
    /\ document_entity' = r.st.document_entity
    /\ in_entity_value' = r.st.in_entity_value
    /\ lastTok' = tok
    /\ lastRole' = r.role
    /\ lastCommon' = r.common
    /\ errors' = IF r.role = "Error" /\ errors < MaxErrors
                   THEN errors + 1 ELSE errors
    /\ opens' =
         IF r.st.handler \notin { "element0", "element1", "element2",
                                  "element3", "element4", "element5",
                                  "element6", "element7" } THEN 0
         ELSE IF r.role = "Error" THEN opens
         ELSE IF tok = "OpenParen" THEN opens + 1
         ELSE IF tok \in { "CloseParen", "CloseParenQuestion",
                           "CloseParenAsterisk", "CloseParenPlus" }
           THEN opens - 1
         ELSE opens
    /\ openIncludes' =
         IF r.role = "Error" THEN openIncludes
         ELSE IF handler = "cond_sect1" /\ tok = "OpenBracket"
           THEN openIncludes + 1
         ELSE IF tok = "CondSectClose" /\ openIncludes > 0
           THEN openIncludes - 1
         ELSE openIncludes
    /\ doctypeNames' = IF r.role = "DoctypeName" /\ doctypeNames < 2
                         THEN doctypeNames + 1 ELSE doctypeNames
    /\ doctypeCloses' = IF r.role = "DoctypeClose" /\ doctypeCloses < 2
                          THEN doctypeCloses + 1 ELSE doctypeCloses
    /\ atStart' = ( atStart
                      /\ tok \notin { "PrologS", "Pi", "Comment", "DeclOpen" } )

TokenRole(tok, name) ==
  \E r \in { token_role(State, tok, name) } :
    /\ Call(tok, r)
    /\ UNCHANGED << tvars, svars >>

\* the handlers look at the text of a DeclOpen, Name or PoundName only;
\* every other token is given the text "x"
TextsOf(tok) ==
  IF tok \in {"DeclOpen", "Name", "PoundName"} THEN NameTexts ELSE {"x"}

Next == \E tok \in XmlTok : \E name \in TextsOf(tok) : TokenRole(tok, name)

Spec == Init /\ [][Next]_vars


(***************************************************************************)
(* Properties of the role recognizer, checked under Spec.                  *)
(***************************************************************************)

\* C1  Sink absorption: once a call has returned Error, the handler is the
\* sink and stays the sink, every later call returns None, and Error is
\* never returned a second time.
SinkAbsorption ==
  [][ errors > 0 =>
        /\ handler = "error"
        /\ handler' = "error"
        /\ lastRole' = "None"
        /\ errors' = errors ]_vars

\* a call made after the Error has returned None from the sink
SinkAbsorptionWitness ==
  /\ errors = 1
  /\ handler = "error"
  /\ lastTok = "DeclClose"
  /\ lastRole = "None"

\* C2  Role totality: every call returns a role of the enumeration and
\* leaves the handler at a named state or the sink; a token the state does
\* not accept (the call falls through to common) returns Error and enters
\* the sink, except ParamEntityRef in an external entity, which returns
\* InnerParamEntityRef; an accepted token never returns Error.
RoleTotality ==
  lastTok # NoTok =>
    /\ lastRole \in XmlRole
    /\ handler \in Handlers
    /\ lastCommon =>
         IF lastTok = "ParamEntityRef" /\ ~document_entity
           THEN lastRole = "InnerParamEntityRef" /\ handler # "error"
           ELSE lastRole = "Error" /\ handler = "error"
    /\ ~lastCommon => lastRole # "Error"

\* an unexpected token (a comma) fell through to common and was rejected
RoleTotalityWitness ==
  /\ lastCommon
  /\ lastTok = "Comma"
  /\ lastRole = "Error"
  /\ handler = "error"

WhitespaceRoles ==
  { "None", "DoctypeNone", "EntityNone", "AttlistNone", "ElementNone",
    "NotationNone" }

\* C3 as stated: a PrologS token leaves the handler unchanged in every
\* state and returns None or one of the "still inside X" roles.
WhitespaceNeverAdvances ==
  [][ lastTok' = "PrologS" =>
        /\ handler' = handler
        /\ lastRole' \in WhitespaceRoles ]_vars

\* C3 amended: a PrologS token leaves the handler unchanged in every state
\* but the two initial ones, where it moves prolog0 to prolog1 and
\* external_subset0 to external_subset1; the role is None or one of the
\* "still inside X" roles in every state.
WhitespaceAdvancesOnlyInitial ==
  [][ lastTok' = "PrologS" =>
        /\ handler' = IF handler = "prolog0" THEN "prolog1"
                      ELSE IF handler = "external_subset0"
                        THEN "external_subset1"
                      ELSE handler
        /\ lastRole' \in WhitespaceRoles ]_vars

\* whitespace before the closing ">" of an ELEMENT declaration
WhitespaceWitness ==
  /\ lastTok = "PrologS"
  /\ handler = "decl_close"
  /\ lastRole = "ElementNone"

ContentModelStates ==
  { "element2", "element3", "element4", "element5", "element6", "element7" }

\* C4  Nesting balance: when the DeclClose that ends an ELEMENT declaration
\* has been processed (decl_close returned ElementNone for it), the nesting
\* level is zero.
NestingBalance ==
  (lastTok = "DeclClose" /\ lastRole = "ElementNone") => level = 0

\* C5  The nesting level is positive in the content-model states
\* element2..element7 and zero in every other handler state.
LevelZeroIffOutside ==
  IF handler \in ContentModelStates THEN level > 0 ELSE level = 0

\* C6  Include balance: the OpenBracket that completes "<![INCLUDE["
\* raises include_level by one; a CondSectClose at the external-subset top
\* level lowers it by one and returns None when it is positive, and returns
\* Error and enters the sink when it is zero; no other call changes it.
IncludeBalance ==
  [][ IF handler = "cond_sect1" /\ lastTok' = "OpenBracket"
        THEN /\ include_level' = include_level + 1
             /\ handler' = "external_subset1"
      ELSE IF /\ handler \in {"external_subset0", "external_subset1"}
              /\ lastTok' = "CondSectClose"
        THEN IF include_level > 0
               THEN /\ include_level' = include_level - 1
                    /\ lastRole' = "None"
                    /\ handler' = "external_subset1"
               ELSE /\ include_level' = include_level
                    /\ lastRole' = "Error"
                    /\ handler' = "error"
      ELSE include_level' = include_level ]_vars

\* an INCLUDE section was opened in an external entity and "]]>" closed it
IncludeBalanceWitness ==
  /\ ~document_entity
  /\ handler = "external_subset1"
  /\ lastTok = "CondSectClose"
  /\ lastRole = "None"
  /\ include_level = 1

\* C7  A PrologState made by new_external_entity starts, before any token,
\* with include_level 1, handler external_subset0, document_entity false
\* and level 0.
ExternalEntityStart ==
  (lastTok = NoTok /\ ~document_entity) =>
    /\ include_level = 1
    /\ handler = "external_subset0"
    /\ level = 0

\* the freshly constructed external-entity state
ExternalEntityStartWitness ==
  /\ lastTok = NoTok
  /\ handler = "external_subset0"
  /\ ~document_entity
  /\ include_level = 1


(***************************************************************************)
(* The content scanner (tokenizer.rs).  A byte is a number 0..255, a       *)
(* buffer a sequence of bytes, and a slice `p` of the buffer s the pair of *)
(* offsets [lo, hi): p[0] is s[lo + 1] and p.len() is hi - lo.  A scanner  *)
(* returns the token and the remainder slice; an out-of-range index or     *)
(* slice is the token "Panic".                                             *)
(***************************************************************************)
BT_NMSTRT == "BT_NMSTRT"
BT_HEX == "BT_HEX"
BT_DIGIT == "BT_DIGIT"
BT_S == "BT_S"
BT_CR == "BT_CR"
BT_LF == "BT_LF"
BT_LT == "BT_LT"
BT_GT == "BT_GT"
BT_AMP == "BT_AMP"
BT_SOL == "BT_SOL"
BT_EXCL == "BT_EXCL"
BT_QUEST == "BT_QUEST"
BT_LSQB == "BT_LSQB"
BT_RSQB == "BT_RSQB"
BT_SEMI == "BT_SEMI"
BT_NUM == "BT_NUM"
BT_MINUS == "BT_MINUS"
BT_OTHER == "BT_OTHER"

\* The 256-entry byte-type table, for the categories the content scanner
\* tests; every other byte is BT_OTHER.
TYPE(b) ==
  CASE b = 60 -> BT_LT
    [] b = 62 -> BT_GT
    [] b = 38 -> BT_AMP
    [] b = 47 -> BT_SOL
    [] b = 33 -> BT_EXCL
    [] b = 63 -> BT_QUEST
    [] b = 91 -> BT_LSQB
    [] b = 93 -> BT_RSQB
    [] b = 59 -> BT_SEMI
    [] b = 35 -> BT_NUM
    [] b = 45 -> BT_MINUS
    [] b = 13 -> BT_CR
    [] b = 10 -> BT_LF
    [] b = 32 \/ b = 9 -> BT_S
    [] b \in 48..57 -> BT_DIGIT
    [] b \in 65..70 \/ b \in 97..102 -> BT_HEX
    [] b \in 71..90 \/ b \in 103..122 \/ b = 95 -> BT_NMSTRT
    [] OTHER -> BT_OTHER

byte_type(b) == TYPE(b)

Slice(lo, hi) == [ lo |-> lo, hi |-> hi ]

\* p.is_empty()
IsEmpty(p) == p.lo = p.hi

\* p[0]
First(s, p) == s[p.lo + 1]

\* &p[n..]
Skip(p, n) == Slice(p.lo + n, p.hi)

\* &p[..p.len() - 1]
DropLast(p) == Slice(p.lo, p.hi - 1)

\* a scanner's result (token, remainder)
Tok(t, p) == [ tok |-> t, lo |-> p.lo, hi |-> p.hi ]

is_char_match(s, p, c) == First(s, p) = c

\* the bytes of a slice
Bytes(s, p) == SubSeq(s, p.lo + 1, p.hi)

RECURSIVE scan_start_tag(_, _), scan_atts(_, _), SkipAttribute(_, _),
          scan_end_tag(_, _), CommentBody(_, _), scan_pi(_, _),
          EntityRefName(_, _), CharRefDigits(_, _), scan_hex_char_ref(_, _),
          DataRun(_, _)

\* the inner loop of scan_atts ("simplified attribute parsing")
SkipAttribute(s, p) ==
  IF ~IsEmpty(p) /\ byte_type(First(s, p)) # BT_S
                 /\ byte_type(First(s, p)) # BT_GT
    THEN SkipAttribute(s, Skip(p, 1))
    ELSE p

scan_atts(s, p) ==
  IF IsEmpty(p) THEN Tok("Partial", p)
  ELSE LET bt == byte_type(First(s, p)) IN
    CASE bt \in {BT_S, BT_CR, BT_LF} -> scan_atts(s, Skip(p, 1))
      [] bt = BT_GT -> Tok("StartTagWithAtts", Skip(p, 1))
      [] bt = BT_SOL ->
           LET p1 == Skip(p, 1) IN
           IF ~IsEmpty(p1) /\ is_char_match(s, p1, 62)
             THEN Tok("EmptyElementWithAtts", Skip(p1, 1))
             ELSE Tok("Invalid", p1)
      [] bt \in {BT_NMSTRT, BT_HEX} -> scan_atts(s, SkipAttribute(s, p))
      [] OTHER -> Tok("Invalid", p)

scan_start_tag(s, p) ==
  IF IsEmpty(p) THEN Tok("Partial", p)
  ELSE LET bt == byte_type(First(s, p)) IN
    CASE bt \in {BT_S, BT_CR, BT_LF} -> scan_atts(s, Skip(p, 1))
      [] bt = BT_GT -> Tok("StartTagNoAtts", Skip(p, 1))
      [] bt = BT_SOL ->
           LET p1 == Skip(p, 1) IN
           IF ~IsEmpty(p1) /\ is_char_match(s, p1, 62)
             THEN Tok("EmptyElementNoAtts", Skip(p1, 1))
             ELSE Tok("Invalid", p1)
      [] OTHER -> scan_start_tag(s, Skip(p, 1))

scan_end_tag(s, p) ==
  IF IsEmpty(p) THEN Tok("Partial", p)
  ELSE LET bt == byte_type(First(s, p)) IN
    CASE bt \in {BT_S, BT_CR, BT_LF} -> scan_end_tag(s, Skip(p, 1))
      [] bt = BT_GT -> Tok("EndTag", Skip(p, 1))
      [] OTHER -> scan_end_tag(s, Skip(p, 1))

\* the while loop of scan_comment; the `p = &p[1..]` that ends an iteration
\* runs also when the "-" just consumed was the last byte of the input
CommentBody(s, p) ==
  IF IsEmpty(p) THEN Tok("Partial", p)
  ELSE IF is_char_match(s, p, 45)
    THEN LET p1 == Skip(p, 1) IN
         IF ~IsEmpty(p1) /\ is_char_match(s, p1, 45)
           THEN LET p2 == Skip(p1, 1) IN
                IF ~IsEmpty(p2) /\ is_char_match(s, p2, 62)
                  THEN Tok("Comment", Skip(p2, 1))
                  ELSE Tok("Invalid", p2)
         ELSE IF IsEmpty(p1) THEN Tok("Panic", p1)
         ELSE CommentBody(s, Skip(p1, 1))
  ELSE CommentBody(s, Skip(p, 1))

scan_comment(s, p) ==
  IF ~IsEmpty(p) /\ is_char_match(s, p, 45)
    THEN CommentBody(s, Skip(p, 1))
    ELSE Tok("Partial", p)

CDATA_LSQB == << 67, 68, 65, 84, 65, 91 >>

scan_cdata_section(s, p) ==
  IF p.hi - p.lo < Len(CDATA_LSQB) THEN Tok("Partial", p)
  ELSE IF Bytes(s, Slice(p.lo, p.lo + Len(CDATA_LSQB))) = CDATA_LSQB
    THEN Tok("CdataSectOpen", Skip(p, Len(CDATA_LSQB)))
  ELSE Tok("Invalid", p)

\* as in scan_comment, the `p = &p[1..]` that ends an iteration runs also
\* when the "?" just consumed was the last byte of the input
scan_pi(s, p) ==
  IF IsEmpty(p) THEN Tok("Partial", p)
  ELSE IF is_char_match(s, p, 63)
    THEN LET p1 == Skip(p, 1) IN
         IF ~IsEmpty(p1) /\ is_char_match(s, p1, 62)
           THEN Tok("Pi", Skip(p1, 1))
         ELSE IF IsEmpty(p1) THEN Tok("Panic", p1)
         ELSE scan_pi(s, Skip(p1, 1))
  ELSE scan_pi(s, Skip(p, 1))

scan_hex_char_ref(s, p) ==
  IF IsEmpty(p) THEN Tok("Partial", p)
  ELSE LET bt == byte_type(First(s, p)) IN
    CASE bt \in {BT_DIGIT, BT_HEX} -> scan_hex_char_ref(s, Skip(p, 1))
      [] bt = BT_SEMI -> Tok("CharRef", Skip(p, 1))
      [] OTHER -> Tok("Invalid", p)

\* the while loop of scan_char_ref
CharRefDigits(s, p) ==
  IF IsEmpty(p) THEN Tok("Partial", p)
  ELSE LET bt == byte_type(First(s, p)) IN
    CASE bt = BT_DIGIT -> CharRefDigits(s, Skip(p, 1))
      [] bt = BT_SEMI -> Tok("CharRef", Skip(p, 1))
      [] OTHER -> Tok("Invalid", p)

scan_char_ref_noHex(s, p) == CharRefDigits(s, p)

scan_char_ref(s, p) ==
  IF ~IsEmpty(p) /\ is_char_match(s, p, 120)
    THEN scan_hex_char_ref(s, Skip(p, 1))
    ELSE CharRefDigits(s, p)

\* the while loop of scan_ref's name arm
EntityRefName(s, p) ==
  IF IsEmpty(p) THEN Tok("Partial", p)
  ELSE IF byte_type(First(s, p)) = BT_SEMI
    THEN Tok("EntityRef", Skip(p, 1))
  ELSE EntityRefName(s, Skip(p, 1))

scan_ref(s, p) ==
  IF IsEmpty(p) THEN Tok("Partial", p)
  ELSE LET bt == byte_type(First(s, p)) IN
    CASE bt = BT_NUM -> scan_char_ref(s, Skip(p, 1))
      [] bt \in {BT_NMSTRT, BT_HEX} -> EntityRefName(s, Skip(p, 1))
      [] OTHER -> Tok("Invalid", p)

scan_lt(s, p) ==
  IF IsEmpty(p) THEN Tok("Partial", p)
  ELSE LET bt == byte_type(First(s, p)) IN
    CASE bt \in {BT_NMSTRT, BT_HEX} -> scan_start_tag(s, Skip(p, 1))
      [] bt = BT_SOL -> scan_end_tag(s, Skip(p, 1))
      [] bt = BT_EXCL ->
           LET p1 == Skip(p, 1) IN
           IF IsEmpty(p1) THEN Tok("Partial", p1)
           ELSE LET bt1 == byte_type(First(s, p1)) IN
             CASE bt1 = BT_MINUS -> scan_comment(s, Skip(p1, 1))
               [] bt1 = BT_LSQB -> scan_cdata_section(s, Skip(p1, 1))
               [] OTHER -> Tok("Invalid", p1)
      [] bt = BT_QUEST -> scan_pi(s, Skip(p, 1))
      [] OTHER -> Tok("Invalid", p)

\* the loop of content_tok's default arm
DataRun(s, p) ==
  IF IsEmpty(p) THEN Tok("DataChars", p)
  ELSE IF byte_type(First(s, p)) \in {BT_LT, BT_AMP, BT_CR, BT_LF, BT_RSQB}
    THEN Tok("DataChars", p)
  ELSE DataRun(s, Skip(p, 1))

\* content_tok(ptr), ptr being the slice [ptr.lo, ptr.hi) of s
content_tok(s, ptr) ==
  IF IsEmpty(ptr) THEN Tok("None", ptr)
  ELSE LET bt == byte_type(First(s, ptr))
           p == Skip(ptr, 1)
       IN
    CASE bt = BT_LT -> scan_lt(s, p)
      [] bt = BT_AMP -> scan_ref(s, p)
      [] bt = BT_CR ->
           IF IsEmpty(p) THEN Tok("TrailingCr", p)
           ELSE IF byte_type(First(s, p)) = BT_LF
             THEN Tok("DataNewline", Skip(p, 1))
           ELSE Tok("DataNewline", p)
      [] bt = BT_LF -> Tok("DataNewline", p)
      [] bt = BT_RSQB ->
           IF IsEmpty(p) THEN Tok("TrailingRsqb", p)
           ELSE IF is_char_match(s, p, 93)
             THEN LET p1 == Skip(p, 1) IN
                  IF IsEmpty(p1) THEN Tok("TrailingRsqb", p1)
                  ELSE IF is_char_match(s, p1, 62) THEN Tok("Invalid", p1)
                  ELSE Tok("DataChars", DropLast(p1))
           ELSE Tok("DataChars", p)
      [] OTHER -> DataRun(s, ptr)


(***************************************************************************)
(* The scanner applied to bounded buffers.                                 *)
(***************************************************************************)
\* the tokens that ask for more input
Suspension == { "Partial", "PartialChar", "TrailingCr", "TrailingRsqb", "None" }

\* The driver's loop over one buffer window p of s: call content_tok at the
\* cursor, record every non-suspension token with its span [from, to) and
\* go on at the remainder; stop at a suspension token (the cursor stays at
\* the start of the suspended token), after an Invalid token, or when the
\* scanner panics.
RECURSIVE Scan(_, _, _)
Scan(s, p, acc) ==
  LET r == content_tok(s, p) IN
  IF r.tok \in Suspension \/ r.tok = "Panic"
    THEN [ toks |-> acc, at |-> p.lo, stop |-> r.tok ]
  ELSE LET t == [ tok |-> r.tok, from |-> p.lo, to |-> r.lo ] IN
    IF r.tok = "Invalid"
      THEN [ toks |-> Append(acc, t), at |-> p.lo, stop |-> r.tok ]
      ELSE Scan(s, Slice(r.lo, r.hi), Append(acc, t))

\* scanning the whole of s
ScanDirect(s) == Scan(s, Slice(0, Len(s)), << >>)

\* scanning the first k bytes of s until the scanner suspends, then, with
\* all of s at hand, scanning on from the start of the suspended token
ScanResumed(s, k) ==
  LET first == Scan(s, Slice(0, k), << >>) IN
  IF first.stop \in Suspension
    THEN Scan(s, Slice(first.at, Len(s)), first.toks)
    ELSE first

\* the bytes the inputs are made of:  LF CR ! - / < > ? ] a
Alphabet == { 10, 13, 33, 45, 47, 60, 62, 63, 93, 97 }

\* all byte strings over the alphabet, up to MaxLen bytes
Strings(bytes) == UNION { [1..n -> bytes] : n \in 0..MaxLen }

\* the inputs that begin with prefix and go on with a string over bytes
Probe(prefix, bytes) == { prefix \o t : t \in Strings(bytes) }

\* "<!--" followed by strings over  - > a
CommentInputs == Probe(<< 60, 33, 45, 45 >>, { 45, 62, 97 })

\* "&" followed by strings over  # 1 ; a x
RefInputs == Probe(<< 38 >>, { 35, 49, 59, 97, 120 })

\* "<![" followed by strings over  C [ a
CdataInputs == Probe(<< 60, 33, 91 >>, { 67, 91, 97 })

\* "<a " followed by strings over  space / > a
AttsInputs == Probe(<< 60, 97, 32 >>, { 32, 47, 62, 97 })

\* "<?" followed by strings over  > ? a
PiInputs == Probe(<< 60, 63 >>, { 62, 63, 97 })

Inputs ==
  Strings(Alphabet) \cup CommentInputs \cup RefInputs \cup CdataInputs
    \cup AttsInputs \cup PiInputs

NoRes == [ tok |-> NoTok, lo |-> 0, hi |-> 0 ]

InitTok ==
  /\ InitState(new)
  /\ buf \in Inputs
  /\ res = NoRes
  /\ cut = 0
  /\ direct = << >>
  /\ resumed = << >>
  /\ ScriptIdle

\* one call content_tok(buf)
ContentTok ==
  /\ res = NoRes
  /\ res' = content_tok(buf, Slice(0, Len(buf)))
  /\ UNCHANGED << buf, cut, direct, resumed, pvars, svars >>

\* buf scanned in one piece, and split after k bytes and resumed
Rescan(k) ==
  /\ res # NoRes
  /\ direct = << >> /\ resumed = << >>
  /\ cut' = k
  /\ direct' = ScanDirect(buf).toks
  /\ resumed' = ScanResumed(buf, k).toks
  /\ UNCHANGED << buf, res, pvars, svars >>

NextTok == ContentTok \/ \E k \in 0..Len(buf) : Rescan(k)

SpecTok == InitTok /\ [][NextTok]_vars

(***************************************************************************)
(* Properties of the scanner, checked under SpecTok.                       *)
(***************************************************************************)

\* C8  Progress or suspension: content_tok(buf) returns either a suspension
\* token, or a non-suspension token whose remainder is strictly shorter
\* than buf.
ProgressOrSuspension ==
  res # NoRes =>
    \/ res.tok \in Suspension
    \/ /\ res.tok \in XmlTok \ Suspension
       /\ res.hi - res.lo < Len(buf)

\* C9  The remainder content_tok(buf) returns is a suffix of buf:
\* buf = consumed \o remainder for some consumed.
RemainderIsSuffix ==
  (res # NoRes /\ res.tok # "Panic") =>
    /\ res.lo <= res.hi
    /\ Bytes(buf, Slice(res.lo, res.hi))
         = SubSeq(buf, Len(buf) - (res.hi - res.lo) + 1, Len(buf))

\* C10  Prefix restartability: for every split of buf, scanning the first
\* part until the scanner suspends and resuming in the whole buffer at the
\* start of the suspended token yields the same non-suspension tokens, kinds
\* and spans, as scanning buf in one piece.
PrefixRestartable ==
  resumed = direct

\* C11  Input exhaustion is Partial, never Invalid: when content_tok(buf)
\* returns Invalid, content_tok of buf extended by any further byte returns
\* Invalid too (and so, byte by byte, of every extension of buf); a proper
\* prefix of a well-formed tag or comment is therefore never Invalid.
InvalidIsFinal ==
  res.tok = "Invalid" =>
    \A b \in Alphabet :
      content_tok(Append(buf, b), Slice(0, Len(buf) + 1)).tok = "Invalid"

\* C12  A wrong byte after a committed prefix is Invalid, never Partial:
\* "<!-" followed by a byte other than "-" returns Invalid, "<![" followed
\* by bytes deviating from "CDATA[" returns Invalid, and whenever
\* content_tok(buf) returns Partial some extension of buf returns a token
\* that is neither a suspension nor Invalid.
\* (the extensions tried are the ends that complete a token:  ">"  "a>"
\* "?>"  ";"  "a;"  "-->"  "--->"  "---->"  and the tails of "CDATA[")
WrongByteIsInvalid ==
  LET Closers ==
        { << 62 >>, << 97, 62 >>, << 63, 62 >>, << 59 >>, << 97, 59 >>,
          << 45, 45, 62 >>, << 45, 45, 45, 62 >>, << 45, 45, 45, 45, 62 >> }
          \cup { SubSeq(CDATA_LSQB, i, Len(CDATA_LSQB)) :
                   i \in 1..Len(CDATA_LSQB) }
      DeviatesFromCdata ==
        /\ Len(buf) >= 4
        /\ SubSeq(buf, 1, 3) = << 60, 33, 91 >>
        /\ \E i \in 1..Len(CDATA_LSQB) :
             i + 3 <= Len(buf) /\ buf[i + 3] # CDATA_LSQB[i]
  IN
  res # NoRes =>
    /\ ( /\ Len(buf) >= 4
         /\ SubSeq(buf, 1, 3) = << 60, 33, 45 >>
         /\ buf[4] # 45 ) => res.tok = "Invalid"
    /\ DeviatesFromCdata => res.tok = "Invalid"
    /\ res.tok = "Partial" =>
         \E t \in Closers :
           content_tok(buf \o t, Slice(0, Len(buf) + Len(t))).tok
             \notin Suspension \cup { "Invalid", "Panic" }

\* C17  Whenever "]]>" appears in content, applying content_tok again and
\* again from the start of buf reaches an Invalid token at the first such
\* sequence, further "]" bytes before it included; and a buf that is just
\* "]" or "]]" returns TrailingRsqb.
\* ("]]>" is in content at offset i when no "<" or "&" stands before it)
CdataEndIsInvalid ==
  LET CdataEndAt(i) ==
        /\ i + 3 <= Len(buf)
        /\ SubSeq(buf, i + 1, i + 3) = << 93, 93, 62 >>
        /\ \A j \in 1..i : buf[j] \notin { 60, 38 }
  IN
  res # NoRes =>
    /\ buf \in { << 93 >>, << 93, 93 >> } => res.tok = "TrailingRsqb"
    /\ \A i \in 0..Len(buf) :
         (CdataEndAt(i) /\ \A j \in 0..(i - 1) : ~CdataEndAt(j)) =>
           LET d == ScanDirect(buf).toks IN
           /\ d # << >>
           /\ d[Len(d)].tok = "Invalid"
           /\ d[Len(d)].from = i

\* C18  Comment recognition: for a buf beginning "<!--", content_tok
\* returns Comment, with the remainder just past "-->", when the first "--"
\* of the body is immediately followed by ">", Invalid when it is followed
\* by another byte, and Partial when buf ends before that is decided.
\* (DashPairs are the offsets of buf, past "<!--", at which "--" stands)
CommentRecognition ==
  LET DashPairs ==
        { i \in 4..(Len(buf) - 2) : buf[i + 1] = 45 /\ buf[i + 2] = 45 }
  IN
  ( /\ res # NoRes
    /\ Len(buf) >= 4
    /\ SubSeq(buf, 1, 4) = << 60, 33, 45, 45 >> ) =>
      IF DashPairs = {} THEN res.tok = "Partial"
      ELSE LET i == CHOOSE k \in DashPairs : \A j \in DashPairs : k <= j IN
        IF i + 2 = Len(buf) THEN res.tok = "Partial"
        ELSE IF buf[i + 3] = 62
          THEN res = [ tok |-> "Comment", lo |-> i + 3, hi |-> Len(buf) ]
        ELSE res.tok = "Invalid"

\* C19  Reference recognition: "&" name ";" returns EntityRef, "&#" digits
\* ";" and "&#x" hex digits ";" return CharRef, each with the remainder
\* just past the ";"; a byte that is no digit (no hex digit) before the ";"
\* of a character reference returns Invalid; and a buf that ends before the
\* terminating ";" returns Partial.
\* (digits are 0-9, hex digits 0-9A-Fa-f, a name is a letter or "_"
\* followed by letters, digits and "_")
ReferenceRecognition ==
  LET Digits == 48..57
      HexDigits == Digits \cup (65..70) \cup (97..102)
      NameStart == (65..90) \cup (97..122) \cup { 95 }
      NameChar == NameStart \cup Digits
      AllIn(a, b, S) == \A j \in a..b : buf[j] \in S
      n == Len(buf)
  IN
  (res # NoRes /\ buf # << >> /\ buf[1] = 38) =>
    /\ \A e \in 3..n :
         (buf[2] \in NameStart /\ AllIn(3, e - 1, NameChar) /\ buf[e] = 59)
           => res = [ tok |-> "EntityRef", lo |-> e, hi |-> n ]
    /\ \A e \in 4..n :
         (buf[2] = 35 /\ AllIn(3, e - 1, Digits) /\ buf[e] = 59)
           => res = [ tok |-> "CharRef", lo |-> e, hi |-> n ]
    /\ \A e \in 5..n :
         ( /\ buf[2] = 35 /\ buf[3] = 120
           /\ AllIn(4, e - 1, HexDigits) /\ buf[e] = 59 )
           => res = [ tok |-> "CharRef", lo |-> e, hi |-> n ]
    /\ \A e \in 3..n :
         ( /\ buf[2] = 35 /\ AllIn(3, e - 1, Digits)
           /\ buf[e] \notin Digits \cup { 59 }
           /\ ~(e = 3 /\ buf[e] = 120) )
           => res.tok = "Invalid"
    /\ \A e \in 4..n :
         ( /\ buf[2] = 35 /\ buf[3] = 120 /\ AllIn(4, e - 1, HexDigits)
           /\ buf[e] \notin HexDigits \cup { 59 } )
           => res.tok = "Invalid"
    /\ ( \/ n = 1
         \/ buf[2] \in NameStart /\ AllIn(3, n, NameChar)
         \/ buf[2] = 35 /\ AllIn(3, n, Digits)
         \/ buf[2] = 35 /\ n >= 3 /\ buf[3] = 120 /\ AllIn(4, n, HexDigits) )
         => res.tok = "Partial"

\* "&#xa;" has been recognised as a character reference
ReferenceWitness ==
  /\ buf = << 38, 35, 120, 97, 59 >>
  /\ res = [ tok |-> "CharRef", lo |-> 5, hi |-> 5 ]

\* C23  Tags with attributes: for a buf "<a" + whitespace + attributes,
\* content_tok returns EmptyElementWithAtts when the tag is terminated by
\* "/>", with or without whitespace before the "/", StartTagWithAtts when
\* it is terminated by ">" without a "/" before it, and Invalid when a "/"
\* is followed by a byte other than ">".
\* (k is the first "/" or ">" after "<a ", with an attribute before it)
TagWithAtts ==
  LET n == Len(buf)
      Ends == { k \in 4..n : buf[k] \in { 47, 62 } }
  IN
  ( /\ res # NoRes
    /\ n >= 4
    /\ SubSeq(buf, 1, 3) = << 60, 97, 32 >>
    /\ Ends # {} ) =>
      LET k == CHOOSE e \in Ends : \A j \in Ends : e <= j IN
      (\E j \in 4..(k - 1) : buf[j] = 97) =>
        /\ buf[k] = 62 =>
             res = [ tok |-> "StartTagWithAtts", lo |-> k, hi |-> n ]
        /\ (buf[k] = 47 /\ k < n /\ buf[k + 1] = 62) =>
             res = [ tok |-> "EmptyElementWithAtts", lo |-> k + 1, hi |-> n ]
        /\ (buf[k] = 47 /\ k < n /\ buf[k + 1] # 62) =>
             res.tok = "Invalid"

\* C24  Processing instructions: for a buf beginning "<?" whose body
\* contains "?>", content_tok returns Pi with the remainder just past the
\* first "?>", also when another "?" stands before it as in "<?a??>"; when
\* the body holds no "?>" it returns Partial.
\* (PiEnds are the offsets of buf, past "<?", at which "?>" stands)
PiRecognition ==
  LET n == Len(buf)
      PiEnds == { i \in 2..(n - 2) : buf[i + 1] = 63 /\ buf[i + 2] = 62 }
  IN
  (res # NoRes /\ n >= 2 /\ SubSeq(buf, 1, 2) = << 60, 63 >>) =>
    IF PiEnds = {} THEN res.tok = "Partial"
    ELSE LET i == CHOOSE k \in PiEnds : \A j \in PiEnds : k <= j IN
      res = [ tok |-> "Pi", lo |-> i + 2, hi |-> n ]

\* C30  content_tok is total: for every buf it returns a token and a
\* remainder and never slices past the end of its input, also when buf ends
\* inside a comment right after a single "-" ("<!--a-") or inside a
\* processing instruction right after a "?" ("<?a?").
ContentTokTotal ==
  res # NoRes =>
    /\ res.tok \in XmlTok
    /\ 0 <= res.lo /\ res.lo <= res.hi /\ res.hi <= Len(buf)


(***************************************************************************)
(* Declarations fed to the role recognizer token by token, with whitespace *)
(* tokens in between.                                                      *)
(***************************************************************************)
Tk(tok, name) == [ tok |-> tok, name |-> name ]

\* <!DOCTYPE x PUBLIC "p" "u">
DoctypePublic ==
  << Tk("DeclOpen", KW_DOCTYPE), Tk("Name", "x"), Tk("Name", KW_PUBLIC),
     Tk("Literal", "x"), Tk("Literal", "x"), Tk("DeclClose", "x") >>

\* <!DOCTYPE x [
DoctypeOpen ==
  << Tk("DeclOpen", KW_DOCTYPE), Tk("Name", "x"), Tk("OpenBracket", "x") >>

\* ]>
DoctypeEnd == << Tk("CloseBracket", "x"), Tk("DeclClose", "x") >>

\* <!ENTITY e "v">
EntityDecl ==
  << Tk("DeclOpen", KW_ENTITY), Tk("Name", "x"), Tk("Literal", "x"),
     Tk("DeclClose", "x") >>

\* <!ELEMENT a (b,c?)>
ElementDecl ==
  << Tk("DeclOpen", KW_ELEMENT), Tk("Name", "x"), Tk("OpenParen", "x"),
     Tk("Name", "x"), Tk("Comma", "x"), Tk("NameQuestion", "x"),
     Tk("CloseParen", "x"), Tk("DeclClose", "x") >>

\* <!ATTLIST t a CDATA #IMPLIED>
AttlistDecl ==
  << Tk("DeclOpen", KW_ATTLIST), Tk("Name", "x"), Tk("Name", "x"),
     Tk("Name", KW_CDATA), Tk("PoundName", KW_IMPLIED),
     Tk("DeclClose", "x") >>

\* the documents fed: a declaration of the internal subset is reached
\* through "<!DOCTYPE x [", which leaves the handler at internal_subset
DoctypeEntity == DoctypeOpen \o EntityDecl \o DoctypeEnd
DoctypeElement == DoctypeOpen \o ElementDecl
DoctypeAttlist == DoctypeOpen \o AttlistDecl

\* the entity declarations with an external id and no NDATA name:
\* <!ENTITY e SYSTEM "u">, <!ENTITY e PUBLIC "p" "u">, and the same two for
\* a parameter entity (<!ENTITY % e ...>)
ExternalEntityDecls ==
  LET sys == << Tk("Name", KW_SYSTEM), Tk("Literal", "x"),
                Tk("DeclClose", "x") >>
      pub == << Tk("Name", KW_PUBLIC), Tk("Literal", "x"),
                Tk("Literal", "x"), Tk("DeclClose", "x") >>
      gen == << Tk("DeclOpen", KW_ENTITY), Tk("Name", "x") >>
      par == << Tk("DeclOpen", KW_ENTITY), Tk("Percent", "x"),
                Tk("Name", "x") >>
  IN  { gen \o sys, gen \o pub, par \o sys, par \o pub }

\* the entity declarations with a literal value or an NDATA name:
\* <!ENTITY e "v">, <!ENTITY % e "v">, <!ENTITY e SYSTEM "u" NDATA n>,
\* <!ENTITY e PUBLIC "p" "u" NDATA n>
ValueEntityDecls ==
  LET gen == << Tk("DeclOpen", KW_ENTITY), Tk("Name", "x") >>
      ndata == << Tk("Name", KW_NDATA), Tk("Name", "x"),
                  Tk("DeclClose", "x") >>
  IN  { EntityDecl,
        << Tk("DeclOpen", KW_ENTITY), Tk("Percent", "x"), Tk("Name", "x"),
           Tk("Literal", "x"), Tk("DeclClose", "x") >>,
        gen \o << Tk("Name", KW_SYSTEM), Tk("Literal", "x") >> \o ndata,
        gen \o << Tk("Name", KW_PUBLIC), Tk("Literal", "x"),
                  Tk("Literal", "x") >> \o ndata }

\* <!DOCTYPE x [<!ATTLIST t a kw  -- up to the Name token that attlist2
\* receives as the attribute type
AttlistUpToType(kw) ==
  DoctypeOpen \o << Tk("DeclOpen", KW_ATTLIST), Tk("Name", "x"),
                    Tk("Name", "x"), Tk("Name", kw) >>

Scripts ==
  { DoctypePublic, DoctypeEntity, DoctypeElement, DoctypeAttlist }
    \cup { DoctypeOpen \o d : d \in ExternalEntityDecls \cup ValueEntityDecls }
    \cup { AttlistUpToType(kw) : kw \in NameTexts }

\* the number of whitespace tokens at the end of the calls made so far
RECURSIVE TrailingSpaces(_)
TrailingSpaces(rs) ==
  IF rs = << >> \/ rs[Len(rs)].tok # "PrologS" THEN 0
  ELSE 1 + TrailingSpaces(SubSeq(rs, 1, Len(rs) - 1))

InitScript ==
  /\ InitState(new)
  /\ TokIdle
  /\ script \in Scripts
  /\ pos = 1
  /\ roles = << >>

\* the next token of the declaration is handed to token_role
Feed ==
  /\ pos <= Len(script)
  /\ \E r \in { token_role(State, script[pos].tok, script[pos].name) } :
       /\ Call(script[pos].tok, r)
       /\ roles' = Append(roles, [ tok |-> script[pos].tok, role |-> r.role ])
  /\ pos' = pos + 1
  /\ UNCHANGED << script, tvars >>

\* a whitespace token is handed to token_role before the next token
Space ==
  /\ pos <= Len(script)
  /\ TrailingSpaces(roles) < MaxSpaces
  /\ \E r \in { token_role(State, "PrologS", "x") } :
       /\ Call("PrologS", r)
       /\ roles' = Append(roles, [ tok |-> "PrologS", role |-> r.role ])
  /\ UNCHANGED << script, pos, tvars >>

NextScript == Feed \/ Space

SpecScript == InitScript /\ [][NextScript]_vars

\* the roles returned so far, those for whitespace tokens left out
NonSpaceRoles ==
  LET keep == SelectSeq(roles, LAMBDA c : c.tok # "PrologS") IN
  [ i \in 1..Len(keep) |-> keep[i].role ]

\* the declaration has been fed to its last token
Fed(sc) == script = sc /\ pos > Len(sc)

\* the roles returned from the n-th token (whitespace not counted) on
RolesFrom(n) == SubSeq(NonSpaceRoles, n, Len(NonSpaceRoles))

(***************************************************************************)
(* Properties of the declarations, checked under SpecScript.               *)
(***************************************************************************)

\* C13 as stated: the tokens of <!DOCTYPE x PUBLIC "p" "u">, fed to a fresh
\* PrologState with whitespace tokens between them, yield exactly the roles
\* DoctypeNone, DoctypeName, DoctypePublicId, DoctypeSystemId, DoctypeClose
\* once the results for the whitespace tokens are left out.
DoctypePublicRolesAsStated ==
  Fed(DoctypePublic) =>
    NonSpaceRoles = << "DoctypeNone", "DoctypeName", "DoctypePublicId",
                       "DoctypeSystemId", "DoctypeClose" >>

\* C13 amended: the roles are DoctypeNone, DoctypeName, DoctypeNone (for the
\* Name token PUBLIC), DoctypePublicId, DoctypeSystemId, DoctypeClose.
DoctypePublicRoles ==
  Fed(DoctypePublic) =>
    NonSpaceRoles = << "DoctypeNone", "DoctypeName", "DoctypeNone",
                       "DoctypePublicId", "DoctypeSystemId",
                       "DoctypeClose" >>

\* the declaration was fed with a whitespace token before each later token
DoctypePublicWitness ==
  /\ Fed(DoctypePublic)
  /\ Len(roles) = 2 * Len(DoctypePublic) - 1
  /\ handler = "prolog2"

\* C14 as stated: the tokens of <!DOCTYPE x [<!ENTITY e "v">]> yield exactly
\* the roles DoctypeNone, DoctypeName, DoctypeInternalSubset, EntityNone,
\* GeneralEntityName, EntityValue, DoctypeNone, DoctypeClose.
DoctypeEntityRolesAsStated ==
  Fed(DoctypeEntity) =>
    NonSpaceRoles = << "DoctypeNone", "DoctypeName", "DoctypeInternalSubset",
                       "EntityNone", "GeneralEntityName", "EntityValue",
                       "DoctypeNone", "DoctypeClose" >>

\* C14 amended: between EntityValue and the DoctypeNone of the close
\* bracket, the DeclClose that ends the entity declaration returns
\* EntityNone.
DoctypeEntityRoles ==
  Fed(DoctypeEntity) =>
    NonSpaceRoles = << "DoctypeNone", "DoctypeName", "DoctypeInternalSubset",
                       "EntityNone", "GeneralEntityName", "EntityValue",
                       "EntityNone", "DoctypeNone", "DoctypeClose" >>

\* the document was fed to its end, with a whitespace token right before
\* the DeclClose of the entity declaration
DoctypeEntityWitness ==
  /\ Fed(DoctypeEntity)
  /\ handler = "prolog2"
  /\ \E i \in 1..(Len(roles) - 1) :
       /\ roles[i].tok = "PrologS" /\ roles[i].role = "EntityNone"
       /\ roles[i + 1].tok = "DeclClose"

\* C15 as stated: with the handler at internal_subset, the tokens of
\* <!ELEMENT a (b,c?)> yield exactly the roles ElementNone, ElementName,
\* GroupOpen, ContentElement, ContentElementOpt, GroupClose, ElementNone.
ElementRolesAsStated ==
  Fed(DoctypeElement) =>
    RolesFrom(Len(DoctypeOpen) + 1)
      = << "ElementNone", "ElementName", "GroupOpen", "ContentElement",
           "ContentElementOpt", "GroupClose", "ElementNone" >>

\* C15 amended: the Comma token returns GroupSequence between
\* ContentElement and ContentElementOpt.
ElementRoles ==
  Fed(DoctypeElement) =>
    RolesFrom(Len(DoctypeOpen) + 1)
      = << "ElementNone", "ElementName", "GroupOpen", "ContentElement",
           "GroupSequence", "ContentElementOpt", "GroupClose",
           "ElementNone" >>

\* the element declaration was fed from internal_subset to its DeclClose,
\* with a whitespace token inside the group, and the handler is back at
\* internal_subset
ElementWitness ==
  /\ Fed(DoctypeElement)
  /\ handler = "internal_subset"
  /\ level = 0
  /\ \E i \in 1..(Len(roles) - 1) :
       /\ roles[i].tok = "PrologS" /\ roles[i].role = "ElementNone"
       /\ roles[i + 1].tok = "Comma"

\* C16  With the handler at internal_subset, the tokens of
\* <!ATTLIST t a CDATA #IMPLIED> yield exactly the roles AttlistNone,
\* AttlistElementName, AttributeName, AttributeTypeCdata,
\* ImpliedAttributeValue, AttlistNone, whatever whitespace tokens are fed
\* in between.
AttlistRoles ==
  Fed(DoctypeAttlist) =>
    RolesFrom(Len(DoctypeOpen) + 1)
      = << "AttlistNone", "AttlistElementName", "AttributeName",
           "AttributeTypeCdata", "ImpliedAttributeValue", "AttlistNone" >>

\* the attribute-list declaration was fed from internal_subset to its
\* DeclClose, with a whitespace token before the default, and the handler is
\* back at internal_subset
AttlistWitness ==
  /\ Fed(DoctypeAttlist)
  /\ handler = "internal_subset"
  /\ \E i \in 1..(Len(roles) - 1) :
       /\ roles[i].tok = "PrologS" /\ roles[i].role = "AttlistNone"
       /\ roles[i + 1].tok = "PoundName"

\* C22 as stated: every accepted ENTITY declaration, general or parameter,
\* with a literal value, an external id, or an external id and an NDATA
\* name, returns EntityComplete for its closing DeclClose.
EntityCompleteAlways ==
  \A d \in ExternalEntityDecls \cup ValueEntityDecls :
    Fed(DoctypeOpen \o d) =>
      lastTok = "DeclClose" /\ lastRole = "EntityComplete"

\* C22 amended: the closing DeclClose returns EntityComplete for a
\* declaration with an external id and no NDATA name, and EntityNone for
\* one with a literal value or an NDATA name; either way the declaration is
\* accepted and the handler is back at internal_subset.
EntityCompleteExternalOnly ==
  /\ \A d \in ExternalEntityDecls :
       Fed(DoctypeOpen \o d) =>
         /\ lastTok = "DeclClose" /\ lastRole = "EntityComplete"
         /\ handler = "internal_subset"
  /\ \A d \in ValueEntityDecls :
       Fed(DoctypeOpen \o d) =>
         /\ lastTok = "DeclClose" /\ lastRole = "EntityNone"
         /\ handler = "internal_subset"

\* <!ENTITY % e PUBLIC "p" "u"> was fed to its DeclClose, with whitespace
\* tokens on the way
EntityCompleteWitness ==
  /\ \E d \in ExternalEntityDecls :
       Fed(DoctypeOpen \o d) /\ d[2].tok = "Percent" /\ Len(d) = 7
  /\ Len(roles) > Len(script)
  /\ lastRole = "EntityComplete"

\* C27  In attlist2 a Name token matching CDATA, ID, IDREF, IDREFS, ENTITY,
\* ENTITIES, NMTOKEN or NMTOKENS returns AttributeTypeCdata,
\* AttributeTypeId, AttributeTypeIdref, AttributeTypeIdrefs,
\* AttributeTypeEntity, AttributeTypeEntities, AttributeTypeNmtoken or
\* AttributeTypeNmtokens respectively (the ordinal arithmetic agrees with
\* the keyword-to-role table) and moves the handler to attlist8.
AttributeTypeTable ==
  LET table == << << "CDATA", "AttributeTypeCdata" >>,
                  << "ID", "AttributeTypeId" >>,
                  << "IDREF", "AttributeTypeIdref" >>,
                  << "IDREFS", "AttributeTypeIdrefs" >>,
                  << "ENTITY", "AttributeTypeEntity" >>,
                  << "ENTITIES", "AttributeTypeEntities" >>,
                  << "NMTOKEN", "AttributeTypeNmtoken" >>,
                  << "NMTOKENS", "AttributeTypeNmtokens" >> >>
  IN  \A i \in DOMAIN table :
        Fed(AttlistUpToType(table[i][1])) =>
          /\ lastTok = "Name"
          /\ lastRole = table[i][2]
          /\ handler = "attlist8"

\* the attribute type NMTOKENS, the last of the table, has been recognised
\* after a whitespace token
AttributeTypeWitness ==
  /\ Fed(AttlistUpToType("NMTOKENS"))
  /\ roles[Len(roles) - 1].tok = "PrologS"
  /\ lastRole = "AttributeTypeNmtokens"
  /\ handler = "attlist8"


(***************************************************************************)
(* The start of the document instance, checked under Spec.                 *)
(***************************************************************************)
\* C20  In each of prolog0, prolog1 and prolog2 an InstanceStart token
\* returns the role InstanceStart and moves the handler to the sink, so
\* that every later call returns None; the role InstanceStart is returned
\* in no other state and for no other token, hence at most once.
InstanceStartOnce ==
  [][ /\ lastRole' = "InstanceStart"
        <=> ( /\ handler \in { "prolog0", "prolog1", "prolog2" }
              /\ lastTok' = "InstanceStart" )
      /\ lastRole' = "InstanceStart" => handler' = "error"
      /\ lastRole = "InstanceStart" =>
           /\ handler = "error"
           /\ handler' = "error"
           /\ lastRole' = "None" ]_vars

\* after the InstanceStart role was returned, with no Error before or
\* after it, a further call has returned None from the sink
InstanceStartWitness ==
  /\ handler = "error"
  /\ errors = 0
  /\ lastTok = "InstanceStart"
  /\ lastRole = "None"


(***************************************************************************)
(* Further properties of the role recognizer, checked under Spec.          *)
(***************************************************************************)

\* C21  When a ParamEntityRef token arrives in a state that does not accept
\* it (the call falls through to common): with document_entity false the
\* call returns InnerParamEntityRef and leaves handler, level, include_level
\* and role_none unchanged; with document_entity true it returns Error and
\* enters the sink.
InnerParamEntityRefRecoverable ==
  [][ (lastTok' = "ParamEntityRef" /\ lastCommon') =>
        IF ~document_entity
          THEN /\ lastRole' = "InnerParamEntityRef"
               /\ handler' = handler
               /\ level' = level
               /\ include_level' = include_level
               /\ role_none' = role_none
          ELSE /\ lastRole' = "Error"
               /\ handler' = "error" ]_vars

\* inside an external entity, an attribute-list declaration has met a
\* parameter-entity reference and is still where it was
InnerParamEntityRefWitness ==
  /\ ~document_entity
  /\ lastTok = "ParamEntityRef"
  /\ lastCommon
  /\ lastRole = "InnerParamEntityRef"
  /\ handler = "attlist1"

\* C25  After the DeclClose that completes an ENTITY, NOTATION, ATTLIST or
\* ELEMENT declaration the handler is internal_subset in the document
\* entity and external_subset1 in an external entity; and in an external
\* entity the handler is never a prolog, doctype or internal_subset state.
TopLevelRestored ==
  /\ [][ ( /\ lastTok' = "DeclClose"
           /\ ~lastCommon'
           /\ handler \in Handlers \ { "prolog0", "prolog1", "prolog2",
                                       "doctype0", "doctype1", "doctype2",
                                       "doctype3", "doctype4", "doctype5",
                                       "error" } ) =>
           handler' = IF document_entity THEN "internal_subset"
                                         ELSE "external_subset1" ]_vars
  /\ [] ( ~document_entity =>
            handler \notin { "prolog0", "prolog1", "prolog2", "doctype0",
                             "doctype1", "doctype2", "doctype3", "doctype4",
                             "doctype5", "internal_subset" } )

\* in an external entity an attribute-list declaration has been closed and
\* the handler is external_subset1
TopLevelRestoredWitness ==
  /\ ~document_entity
  /\ lastTok = "DeclClose"
  /\ lastRole = "AttlistNone"
  /\ handler = "external_subset1"

\* C26  Whenever the handler is decl_close, role_none is the no-op role of
\* the declaration being closed: EntityNone after an entity value or NDATA
\* name, NotationNone after a notation system id, ElementNone after an
\* element content spec; it is never None nor left over from an earlier
\* declaration, and decl_close returns it for PrologS and for DeclClose.
DeclCloseRoleNone ==
  /\ [] ( handler = "decl_close" =>
            role_none \in { "EntityNone", "NotationNone", "ElementNone" } )
  /\ [][ /\ (handler # "decl_close" /\ handler' = "decl_close") =>
              role_none' =
                CASE lastRole' \in { "EntityValue", "EntityNotationName" }
                       -> "EntityNone"
                  [] lastRole' = "NotationSystemId" -> "NotationNone"
                  [] lastRole' \in { "ContentEmpty", "ContentAny",
                                     "GroupClose", "GroupCloseRep",
                                     "GroupCloseOpt", "GroupClosePlus" }
                       -> "ElementNone"
                  [] OTHER -> "no such declaration"
         /\ (handler = "decl_close" /\ handler' = "decl_close") =>
              role_none' = role_none
         /\ (handler = "decl_close" /\ lastTok' \in { "PrologS", "DeclClose" })
              => lastRole' = role_none ]_vars

\* a notation declaration has reached decl_close and a whitespace token
\* there returned NotationNone
DeclCloseRoleNoneWitness ==
  /\ handler = "decl_close"
  /\ role_none = "NotationNone"
  /\ lastTok = "PrologS"
  /\ lastRole = "NotationNone"

\* C28  Mixed content: right after "(" "#PCDATA" (element3) a ")" closes the
\* group with GroupClose and a ")*" with GroupCloseRep; once a "| name"
\* alternative has followed (element4, element5) the group is closed by
\* ")*" only, with GroupCloseRep, and a ")" returns Error; ")?" and ")+"
\* return Error everywhere in mixed content.
MixedContentCloses ==
  [][ /\ (handler = "element3" /\ lastTok' = "CloseParen") =>
           lastRole' = "GroupClose" /\ handler' = "decl_close"
      /\ (handler \in { "element3", "element5" }
            /\ lastTok' = "CloseParenAsterisk") =>
           lastRole' = "GroupCloseRep" /\ handler' = "decl_close"
      /\ (handler \in { "element4", "element5" } /\ lastTok' = "CloseParen")
           => lastRole' = "Error" /\ handler' = "error"
      /\ (handler \in { "element4", "element5" } /\ handler' = "decl_close")
           => handler = "element5" /\ lastTok' = "CloseParenAsterisk"
      /\ (handler \in { "element3", "element4", "element5" }
            /\ lastTok' \in { "CloseParenQuestion", "CloseParenPlus" }) =>
           lastRole' = "Error" /\ handler' = "error"
      /\ handler' = "element5" =>
           \/ handler = "element4" /\ lastTok' \in { "Name", "PrefixedName" }
           \/ handler = "element5" ]_vars

\* a mixed-content group has been closed by ")*"
MixedContentWitness ==
  /\ handler = "decl_close"
  /\ lastTok = "CloseParenAsterisk"
  /\ lastRole = "GroupCloseRep"
  /\ level = 1

\* C29  In a general content model (element2, element6, element7) level
\* equals the number of OpenParen tokens accepted in the declaration minus
\* the number of close-paren tokens accepted; each OpenParen returns
\* GroupOpen, each close the matching GroupClose variant, and the handler
\* leaves the content model for decl_close exactly on the close that brings
\* level to 0.
ParenBalance ==
  /\ [] ( handler \in { "element2", "element6", "element7" } =>
            level = opens )
  /\ [][ /\ ( /\ handler \in { "element1", "element2", "element6" }
              /\ lastTok' = "OpenParen" ) => lastRole' = "GroupOpen"
         /\ handler = "element7" =>
              /\ lastTok' = "CloseParen" => lastRole' = "GroupClose"
              /\ lastTok' = "CloseParenQuestion" =>
                   lastRole' = "GroupCloseOpt"
              /\ lastTok' = "CloseParenAsterisk" =>
                   lastRole' = "GroupCloseRep"
              /\ lastTok' = "CloseParenPlus" => lastRole' = "GroupClosePlus"
         /\ handler \in { "element2", "element6", "element7" } =>
              ( handler' = "decl_close"
                  <=> ( /\ lastTok' \in { "CloseParen", "CloseParenQuestion",
                                          "CloseParenAsterisk",
                                          "CloseParenPlus" }
                        /\ lastRole' # "Error"
                        /\ level' = 0 ) ) ]_vars

\* a ")+" has closed a group at depth three and left the model two
\* groups deep
ParenBalanceWitness ==
  /\ handler = "element7"
  /\ level = 2
  /\ opens = 2
  /\ lastTok = "CloseParenPlus"
  /\ lastRole = "GroupClosePlus"

\* C31 as stated: the nesting level never underflows: level >= 1 whenever
\* the handler is element7 and level >= 2 whenever it is element6, so a
\* close-paren token never decrements level 0.
LevelFloorsAsStated ==
  /\ level >= 0
  /\ handler = "element7" => level >= 1
  /\ handler = "element6" => level >= 2

\* C31 amended: the nesting level never underflows: level >= 1 whenever the
\* handler is element7 or element6 (element6 is entered at level 1 by a
\* Comma or Or inside the outermost group), and every close-paren token
\* that element7 accepts finds level >= 1 and lowers it by exactly one.
LevelNeverUnderflows ==
  /\ [] ( /\ level >= 0
          /\ handler \in { "element6", "element7" } => level >= 1 )
  /\ [][ ( /\ handler = "element7"
           /\ lastTok' \in { "CloseParen", "CloseParenQuestion",
                             "CloseParenAsterisk", "CloseParenPlus" } ) =>
           /\ level >= 1
           /\ level' = level - 1
           /\ lastRole' # "Error" ]_vars

\* a ")" has closed an inner group and left element7 at the lowest level
\* it can have, one
LevelNeverUnderflowsWitness ==
  /\ handler = "element7"
  /\ lastTok = "CloseParen"
  /\ lastRole = "GroupClose"
  /\ level = 1

\* C32  For a state created by new_external_entity: at the external-subset
\* top level the end-of-input token None is accepted (role None, no move to
\* the sink) exactly when every INCLUDE section opened so far has been
\* closed, and a CondSectClose is accepted only when an opened INCLUDE
\* section is still unclosed; in particular a fresh external-entity state
\* accepts None and rejects CondSectClose.
ExternalSubsetEnd ==
  [][ ( /\ ~document_entity
        /\ handler \in { "external_subset0", "external_subset1" } ) =>
        /\ lastTok' = "None" =>
             ( ( lastRole' = "None" /\ handler' # "error" )
                 <=> openIncludes = 0 )
        /\ ( lastTok' = "CondSectClose" /\ lastRole' # "Error" ) =>
             openIncludes > 0 ]_vars

\* C33  For a document-entity PrologState the roles DoctypeName and
\* DoctypeClose are each returned at most once in any token sequence: the
\* call that returns DoctypeClose leaves the handler at prolog2, where a
\* DeclOpen (a second DOCTYPE) or an XmlDecl returns Error; and the role
\* XmlDecl is returned only for an XmlDecl token that arrives before any
\* PrologS, Pi, Comment or DeclOpen token.
DoctypeOnce ==
  /\ [] ( document_entity => doctypeNames <= 1 /\ doctypeCloses <= 1 )
  /\ [][ document_entity =>
           /\ lastRole' = "DoctypeClose" => handler' = "prolog2"
           /\ ( handler = "prolog2" /\ lastTok' \in { "DeclOpen", "XmlDecl" } )
                => lastRole' = "Error"
           /\ lastRole' = "XmlDecl" => ( atStart /\ lastTok' = "XmlDecl" ) ]_vars

\* a document type declaration has been read to its DoctypeClose and the
\* DeclOpen that followed it was answered with Error
DoctypeOnceWitness ==
  /\ document_entity
  /\ doctypeNames = 1
  /\ doctypeCloses = 1
  /\ lastTok = "DeclOpen"
  /\ lastRole = "Error"
  /\ errors = 1

====
